---- MODULE Spec2Model ----
(***************************************************************************)
(* Feed registry, publisher discovery, album resolution and album          *)
(* aggregation of the RSS music site:                                      *)
(*   src/lib/feed-manager.ts      FeedManager  (cached, synchronous)       *)
(*   src/lib/feeds-manager.ts     addFeed/removeFeed (file based, async)   *)
(*   src/scripts/build-rss-data.ts  buildRSSData (reclassify + discovery)  *)
(*   src/lib/albums-service.ts    AlbumsService                            *)
(*   src/unnamed/part_008         GET /api/album/[id]                      *)
(* Strings the code computes on (urls, ids, titles, slugs) are sequences   *)
(* of one-character strings; url tokens ("uA", ...) name whole urls and    *)
(* UrlText gives their characters.                                         *)
(***************************************************************************)
EXTENDS Integers, Sequences, FiniteSets, TLC

----------------------------------------------------------------------------
(* Bounds of the model *)

MaxOps == 1          \* registry mutations per behaviour
MaxRuns == 2         \* buildRSSData runs per behaviour
MaxTicks == 2        \* clock advances per behaviour
MaxCalls == 2        \* fetchAlbums calls per behaviour
MaxResolves == 2     \* GET /api/album/[id] requests per behaviour
MaxFeeds == 2        \* records of an initial registry document of SpecStore
MaxUrlLen == 3       \* length of the url texts enumerated for the id derivations
MaxAbandoned == 1   \* parses abandoned to their timer that are tracked
MaxTriggers == 1    \* triggerFeedProcessing calls per behaviour

(* Program constants *)

IdCap == 200                 \* substring(0, 200)
CACHE_TTL == 300000          \* 5 * 60 * 1000 ms
ALBUM_CACHE_TTL == 600000    \* 10 * 60 * 1000 ms
StartTime == 2 * ALBUM_CACHE_TTL      \* Date.now() at the start: later than any cache lifetime

NULL == [k |-> "null"]          \* null where the code expects an object
UNDEF == "undefined"
UNDEFSTR == <<"undefined">>  \* undefined where the code expects a string

----------------------------------------------------------------------------
(* Characters and the string functions of the code *)

UpperChars == <<"A","B","C","D","E","F","G","H","I","J","K","L","M",
                "N","O","P","Q","R","S","T","U","V","W","X","Y","Z">>
LowerChars == <<"a","b","c","d","e","f","g","h","i","j","k","l","m",
                "n","o","p","q","r","s","t","u","v","w","x","y","z">>
DigitChars == <<"0","1","2","3","4","5","6","7","8","9">>

UpperSet == {UpperChars[i] : i \in 1..Len(UpperChars)}
LowerSet == {LowerChars[i] : i \in 1..Len(LowerChars)}
DigitSet == {DigitChars[i] : i \in 1..Len(DigitChars)}

IsUpper(c) == c \in UpperSet
IsLower(c) == c \in LowerSet
IsDigit(c) == c \in DigitSet
IsAlnum(c) == IsUpper(c) \/ IsLower(c) \/ IsDigit(c)
IsWord(c) == IsAlnum(c) \/ c = "_"
IsSpace(c) == c = " "

LowerOf ==
  [c \in UpperSet |-> LowerChars[CHOOSE i \in 1..Len(UpperChars) : UpperChars[i] = c]]

ToLowerChar(c) == IF IsUpper(c) THEN LowerOf[c] ELSE c

UpperOf ==
  [c \in LowerSet |-> UpperChars[CHOOSE i \in 1..Len(LowerChars) : LowerChars[i] = c]]

ToUpperChar(c) == IF IsLower(c) THEN UpperOf[c] ELSE c

\* String.prototype.toLowerCase
toLowerCase(s) == [i \in 1..Len(s) |-> ToLowerChar(s[i])]

\* s.substring(0, n)
substring0(s, n) == IF Len(s) <= n THEN s ELSE SubSeq(s, 1, n)

\* s.replace(/-+/g, '-'), and /\s+/g -> c the same way: runs of c become one c
RECURSIVE CollapseRuns(_, _)
CollapseRuns(s, c) ==
  IF Len(s) <= 1 THEN s
  ELSE IF s[1] = c /\ s[2] = c THEN CollapseRuns(Tail(s), c)
  ELSE <<s[1]>> \o CollapseRuns(Tail(s), c)

\* s.replace(/^-|-$/g, ''): at most one leading and one trailing hyphen
TrimOneHyphen(s) ==
  LET a == IF Len(s) > 0 /\ s[1] = "-" THEN Tail(s) ELSE s
  IN  IF Len(a) > 0 /\ a[Len(a)] = "-" THEN SubSeq(a, 1, Len(a) - 1) ELSE a

\* s.replace(/^-+|-+$/g, ''): every leading and trailing hyphen
RECURSIVE TrimHyphens(_)
TrimHyphens(s) ==
  IF Len(s) > 0 /\ s[1] = "-" THEN TrimHyphens(Tail(s))
  ELSE IF Len(s) > 0 /\ s[Len(s)] = "-" THEN TrimHyphens(SubSeq(s, 1, Len(s) - 1))
  ELSE s

\* url.replace(/[^a-zA-Z0-9]/g, '-')
NonAlnumToHyphen(s) == [i \in 1..Len(s) |-> IF IsAlnum(s[i]) THEN s[i] ELSE "-"]

\* FeedManager.loadFeeds: id of a record made from a bare url string
loadFeedsFeedId(url) ==
  substring0(TrimOneHyphen(CollapseRuns(toLowerCase(NonAlnumToHyphen(url)), "-")), IdCap)

\* feeds-manager.ts urlToFeed: the id part
urlToFeedId(url) ==
  LET feedId == TrimOneHyphen(CollapseRuns(toLowerCase(NonAlnumToHyphen(url)), "-"))
      cut == SubSeq(feedId, 1, IdCap)
  IN  IF Len(feedId) > IdCap
      THEN (IF cut[Len(cut)] = "-" THEN SubSeq(cut, 1, Len(cut) - 1) ELSE cut)
      ELSE feedId

\* buildRSSData: id of a discovered feed without feedGuid
discoveredFeedId(url) == substring0(toLowerCase(NonAlnumToHyphen(url)), IdCap)

\* The replace chain of generateSlug
SlugText(text) ==
  LET lower == toLowerCase(text)
      kept == SelectSeq(lower, LAMBDA c : IsWord(c) \/ IsSpace(c) \/ c = "-")
      dashed == [i \in 1..Len(kept) |-> IF IsSpace(kept[i]) THEN "-" ELSE kept[i]]
  IN  TrimHyphens(CollapseRuns(dashed, "-"))

\* String.prototype.trim
RECURSIVE trim(_)
trim(s) ==
  IF Len(s) > 0 /\ IsSpace(s[1]) THEN trim(Tail(s))
  ELSE IF Len(s) > 0 /\ IsSpace(s[Len(s)]) THEN trim(SubSeq(s, 1, Len(s) - 1))
  ELSE s

\* .replace(/&/g, 'and').replace(/\+/g, 'plus').replace(/@/g, 'at')
RECURSIVE SpellSymbols(_)
SpellSymbols(s) ==
  IF Len(s) = 0 THEN <<>>
  ELSE (CASE s[1] = "&" -> <<"a", "n", "d">>
          [] s[1] = "+" -> <<"p", "l", "u", "s">>
          [] s[1] = "@" -> <<"a", "t">>
          [] OTHER -> <<s[1]>>) \o SpellSymbols(Tail(s))

\* The specialCases table of generateAlbumSlug, by one of its entries
SpecialTitle == <<"b", "i", "t", "p", "u", "n", "k", ".", "f", "m">>
SpecialSlug == <<"b", "i", "t", "p", "u", "n", "k", "f", "m">>

\* generateAlbumSlug up to the empty-slug fallback
AlbumSlugText(title) ==
  LET lowerTitle == trim(toLowerCase(title))
      kept == SelectSeq(SpellSymbols(lowerTitle),
                        LAMBDA c : IsLower(c) \/ IsDigit(c) \/ IsSpace(c) \/ c = "-")
      spaced == CollapseRuns(kept, " ")
      dashed == [i \in 1..Len(spaced) |-> IF IsSpace(spaced[i]) THEN "-" ELSE spaced[i]]
  IN  IF lowerTitle = SpecialTitle THEN SpecialSlug
      ELSE TrimOneHyphen(CollapseRuns(dashed, "-"))

\* s.split(/\s*[-\u2013]\s*/)[0]: the text before the first dash, without the
\* spaces that precede the dash
IsDash(c) == c = "-" \/ c = "en-dash"

RECURSIVE StripTrailingSpaces(_)
StripTrailingSpaces(s) ==
  IF Len(s) > 0 /\ IsSpace(s[Len(s)]) THEN StripTrailingSpaces(SubSeq(s, 1, Len(s) - 1))
  ELSE s

BeforeFirstDash(s) ==
  IF \E i \in 1..Len(s) : IsDash(s[i])
  THEN StripTrailingSpaces(SubSeq(s, 1, (CHOOSE i \in 1..Len(s) :
                                           IsDash(s[i]) /\ \A j \in 1..(i - 1) : ~IsDash(s[j])) - 1))
  ELSE s

----------------------------------------------------------------------------
(* The feeds of the model.  A url token names a url; UrlText is its text. *)

Urls == {"uP", "uA", "uB", "uC"}

UrlText(u) ==
  CASE u = "uP" -> <<"h",":","/","/","p","/","X">>
    [] u = "uA" -> <<"h",":","/","/","a","/","f">>
    [] u = "uB" -> <<"h",":","/","/","b","/","f">>
    [] u = "uC" -> <<"h",":","/","/","c","/","f">>
    [] u = "uE" -> <<"h","t","t","p","s",":","/","/","a",".","e","x","a","m","p","l","e",
                     "/","f","e","e","d",".","x","m","l">>

\* new URL(url).hostname: the text between "//" and the next "/"
RECURSIVE UpToSlash(_)
UpToSlash(s) == IF Len(s) = 0 \/ s[1] = "/" THEN <<>> ELSE <<s[1]>> \o UpToSlash(Tail(s))

RECURSIVE AfterDoubleSlash(_)
AfterDoubleSlash(s) ==
  IF Len(s) < 2 THEN <<>>
  ELSE IF s[1] = "/" /\ s[2] = "/" THEN SubSeq(s, 3, Len(s))
  ELSE AfterDoubleSlash(Tail(s))

hostname(url) == UpToSlash(AfterDoubleSlash(url))

\* `Feed from ${new URL(url).hostname}`
FeedFromTitle(url) == <<"F","e","e","d"," ","f","r","o","m"," ">> \o hostname(url)

\* new URL(url).pathname, for a url without query or fragment
pathname(url) ==
  LET rest == AfterDoubleSlash(url)
  IN  SubSeq(rest, Len(hostname(url)) + 1, Len(rest))

\* The last non-empty part of urlPath.split('/')
RECURSIVE LastPathPart(_)
LastPathPart(s) ==
  IF Len(s) = 0 THEN <<>>
  ELSE IF s[Len(s)] = "/" THEN LastPathPart(SubSeq(s, 1, Len(s) - 1))
  ELSE IF \E i \in 1..Len(s) : s[i] = "/"
  THEN SubSeq(s, (CHOOSE i \in 1..Len(s) : s[i] = "/" /\ \A j \in (i + 1)..Len(s) : s[j] # "/") + 1,
              Len(s))
  ELSE s

\* lastPart.replace(/\.(xml|rss)$/i, '')
WithoutExt(s) ==
  IF Len(s) >= 4 /\ toLowerCase(SubSeq(s, Len(s) - 3, Len(s)))
                      \in {<<".", "x", "m", "l">>, <<".", "r", "s", "s">>}
  THEN SubSeq(s, 1, Len(s) - 4)
  ELSE s

\* .replace(/-/g, ' ').replace(/\b\w/g, l => l.toUpperCase())
TitleCase(s) ==
  LET spaced == [i \in 1..Len(s) |-> IF s[i] = "-" THEN " " ELSE s[i]]
  IN  [i \in 1..Len(spaced) |->
         IF IsWord(spaced[i]) /\ (i = 1 \/ ~IsWord(spaced[i - 1]))
         THEN ToUpperChar(spaced[i]) ELSE spaced[i]]

\* urlToFeed of feeds-manager.ts: the title part
urlToFeedTitle(url) ==
  LET name == WithoutExt(LastPathPart(pathname(url)))
  IN  IF Len(name) > 0 THEN TitleCase(name) ELSE FeedFromTitle(url)

\* What the remote feed is: RSSParser.detectFeedType(url) when it answers
RemoteType(u) == IF u \in {"uP"} THEN "publisher" ELSE "album"

\* The title RSSParser.parseAlbumFeed(url) reports when it returns data
ParsedTitle(u) ==
  CASE u = "uP" -> <<"X">>
    [] u = "uA" -> <<"X"," ","-"," ","Y">>
    [] u = "uB" -> <<"B","-","e"," ","-"," ","E">>
    [] u = "uC" -> <<"C">>

\* url-utils generateSlug
generateSlug(text) ==
  IF Len(text) = 0 THEN <<>>
  ELSE SlugText(text)

\* url-utils generateAlbumSlug; an empty slug becomes 'album-' + Date.now()
generateAlbumSlug(title, t) ==
  LET slug == AlbumSlugText(title)
  IN  IF Len(slug) = 0 THEN <<"a", "l", "b", "u", "m", "-", ToString(t)>> ELSE slug

\* One podcast:remoteItem of a publisher feed
Item(feedUrl, feedGuid, medium, title) ==
  [feedUrl |-> feedUrl, feedGuid |-> feedGuid, medium |-> medium, title |-> title]

\* What RSSParser.parsePublisherFeed(url) returns when it answers: uP lists
\* uB twice (once with a guid), the soft-deleted uC, the registered uA, a
\* video item and an item without feedUrl
Manifest(u) ==
  IF u = "uP"
  THEN << Item("uB", UNDEFSTR, "music", <<"B","e","e">>),
          Item("uB", <<"g","1">>, "music", UNDEFSTR),
          Item("uC", UNDEFSTR, "music", UNDEFSTR),
          Item("uA", UNDEFSTR, "music", UNDEFSTR),
          Item("uP", UNDEFSTR, "video", UNDEFSTR),
          Item(UNDEF, UNDEFSTR, "music", UNDEFSTR) >>
  ELSE IF u = "uB"
  THEN << Item("uB", UNDEFSTR, "music", UNDEFSTR) >>
  ELSE << >>

----------------------------------------------------------------------------
(* Feed records and the registry document data/feeds.json *)

Feed(id, url, type, title, priority, status, source, from, t) ==
  [k |-> "obj", id |-> id, originalUrl |-> url, type |-> type, title |-> title,
   priority |-> priority, status |-> status, addedAt |-> t, lastUpdated |-> t,
   source |-> source, discoveredFrom |-> from]

\* A bare url string inside the document
Str(u) == [k |-> "str", url |-> u]

\* Property reads on an array element: a string element has none of them
IdOf(e) == IF e.k = "obj" THEN e.id ELSE UNDEFSTR
UrlOf(e) == IF e.k = "obj" THEN e.originalUrl ELSE UNDEF
TypeOf(e) == IF e.k = "obj" THEN e.type ELSE UNDEF
StatusOf(e) == IF e.k = "obj" THEN e.status ELSE UNDEF
TitleOf(e) == IF e.k = "obj" THEN e.title ELSE UNDEFSTR
PriorityOf(e) == IF e.k = "obj" THEN e.priority ELSE UNDEF

FeedsData(feeds, t, v) == [feeds |-> feeds, lastUpdated |-> t, version |-> v]

\* data/feeds.json: absent, unreadable, {feeds, lastUpdated, version} or an array
MissingFile == [shape |-> "missing"]
ObjectFile(feeds, t, v) == [shape |-> "object", feeds |-> feeds, lastUpdated |-> t, version |-> v]
ArrayFile(entries) == [shape |-> "array", feeds |-> entries]

\* The fallback of loadFeeds: an empty registry
FallbackData(t) == FeedsData(<<>>, t, 1)

\* Format 3 with records that start inactive
UrlStringToFeed_inactive(u, t) ==
  Feed(loadFeedsFeedId(UrlText(u)), u, "album", FeedFromTitle(UrlText(u)),
       "core", "inactive", "manual", UNDEF, t)

\* loadFeeds, Format 3: one Feed per url string; a non-string element makes
\* url.replace throw, which the catch turns into the empty registry
UrlStringToFeed(u, t) ==
  Feed(loadFeedsFeedId(UrlText(u)), u, "album", FeedFromTitle(UrlText(u)),
       "core", "active", "manual", UNDEF, t)

\* FeedManager.loadFeeds when the cache is empty: what it reads from the file
ReadFeedsJson(f, t) ==
  CASE f.shape = "missing" -> FallbackData(t)
    [] f.shape = "corrupt" -> FallbackData(t)
    [] f.shape = "object" -> FeedsData(f.feeds, f.lastUpdated, f.version)
    [] f.shape = "array" ->
         IF Len(f.feeds) > 0 /\ f.feeds[1].k = "str"
         THEN IF \A i \in 1..Len(f.feeds) : f.feeds[i].k = "str"
              THEN FeedsData([i \in 1..Len(f.feeds) |-> UrlStringToFeed(f.feeds[i].url, t)], t, 1)
              ELSE FallbackData(t)
         ELSE FeedsData(f.feeds, t, 1)

\* FeedManager.loadFeeds: the cached registry, else the file's
loadFeeds(cache, f, t) == IF cache # NULL THEN cache ELSE ReadFeedsJson(f, t)

\* FeedManager.getActiveFeeds over a loaded registry
ActiveOf(data) == SelectSeq(data.feeds, LAMBDA e : StatusOf(e) = "active")

\* A write that keeps only the url of each record
WriteFeedsData_urlsOnly(data) ==
  ArrayFile([i \in 1..Len(data.feeds) |-> Str(UrlOf(data.feeds[i]))])

\* fs.writeFileSync(feedsPath, JSON.stringify(feedsData, null, 2))
WriteFeedsData(data) == ObjectFile(data.feeds, data.lastUpdated, data.version)

----------------------------------------------------------------------------
(* State *)

VARIABLES
  file,            \* data/feeds.json
  feedsData,       \* FeedManager.feedsData: the cached registry or NULL
  now,             \* Date.now()
  ticks,           \* clock advances so far
  ops,             \* registry mutations so far
  last,            \* the operation that completed last, with what it saw
  build,           \* the running buildRSSData: pc and locals
  runs,            \* buildRSSData runs started so far
  hist,            \* one entry per publisher feed a discovery pass processed
  staticFile,      \* public/static-albums.json
  cachedFile,      \* public/albums-static-cached.json
  memoryCache,     \* AlbumsService.memoryCache: a result or NULL
  cacheTimestamp,  \* AlbumsService.cacheTimestamp
  call,            \* the fetchAlbums call in flight: pc and locals
  calls,           \* fetchAlbums calls started so far
  ret,             \* what the last completed fetchAlbums call returned, and how
  stored,          \* when the memory cache was last stored, and whether cleared since
  abandoned,       \* parses that lost the race against their timer, and how they ended
  albumCache,      \* albumCache of the album route: requested id -> {data, timestamp}
  resolves,        \* GET /api/album/[id] requests so far
  resp,             \* the last response of the album route, with what it saw
  lastProcessedFeeds,  \* auto-feed-processor: the feeds of the last check
  isProcessing,        \* auto-feed-processor: a processFeeds pass is running
  processingTimeout,   \* the debounce timer of the watcher is pending
  initialTimeout,      \* the timer of the initial check is pending
  watcher,             \* fs.watchFile: NULL, or the file as of its last poll
  triggers,            \* triggerFeedProcessing calls so far
  passes               \* processFeeds passes: running, and what each started after

albumVars ==
  <<staticFile, cachedFile, memoryCache, cacheTimestamp, call, calls, ret, stored, abandoned>>

resolveVars == <<albumCache, resolves, resp>>

autoVars ==
  <<lastProcessedFeeds, isProcessing, processingTimeout, initialTimeout, watcher, triggers,
    passes>>

vars ==
  <<file, feedsData, now, ticks, ops, last, build, runs, hist, albumVars, resolveVars, autoVars>>

storeVars == <<file, feedsData>>
buildVars == <<build, runs, hist>>

Range(s) == {s[i] : i \in 1..Len(s)}
Count(x, s) == Cardinality({i \in 1..Len(s) : s[i] = x})

\* The originalUrl of every record of a registry, in order
UrlsIn(feeds) == [i \in 1..Len(feeds) |-> UrlOf(feeds[i])]

\* The id a registry entry answers to: a record's id, or the id derived
\* from a url string
EntryId(e) == IF e.k = "str" THEN urlToFeedId(UrlText(e.url)) ELSE IdOf(e)

IdsIn(feeds) == [i \in 1..Len(feeds) |-> EntryId(feeds[i])]

\* What load() returns in the current state
Registry == loadFeeds(feedsData, file, now)

\* The records the file holds, as a fresh process would load them
Persisted == ReadFeedsJson(file, now)

Idle == build.pc = "idle"

NoOp == [op |-> "none"]

\* auto-feed-processor before startAutoFeedProcessor
NoPasses == [running |-> 0, skipped |-> 0, atStart |-> {}, sees |-> {}, parsed |-> {}]

AutoIdle ==
  /\ lastProcessedFeeds = <<>>
  /\ isProcessing = FALSE
  /\ processingTimeout = FALSE
  /\ initialTimeout = FALSE
  /\ watcher = NULL
  /\ triggers = 0
  /\ passes = NoPasses

----------------------------------------------------------------------------
(* Registries the program starts from *)

IdP == loadFeedsFeedId(UrlText("uP"))
IdA == loadFeedsFeedId(UrlText("uA"))
IdC == loadFeedsFeedId(UrlText("uC"))

RecP(type) == Feed(IdP, "uP", type, <<"X">>, "core", "active", "manual", UNDEF, 0)
RecA == Feed(IdA, "uA", "album", FeedFromTitle(UrlText("uA")), "core", "active", "manual", UNDEF, 0)
RecC == Feed(IdC, "uC", "album", <<"C">>, "low", "inactive", "manual", UNDEF, 0)

InitialFiles ==
  { ObjectFile(<<RecP("album"), RecA, RecC>>, 0, 1),
    ObjectFile(<<RecP("publisher"), RecA>>, 0, 1),
    ArrayFile(<<Str("uP"), Str("uA")>>),
    ArrayFile(<<RecA>>),
    MissingFile }

\* Records a caller registers with FeedManager.addFeed
NewFeeds ==
  { Feed(loadFeedsFeedId(UrlText(u)), u, "album", FeedFromTitle(UrlText(u)),
         "core", "active", "manual", UNDEF, 0) : u \in {"uA", "uB"} }
  \cup { Feed(<<"x">>, "uC", "publisher", <<"X">>, "core", "active", "manual", UNDEF, 0),
         Feed(loadFeedsFeedId(UrlText("uA")), "uB", "album", FeedFromTitle(UrlText("uB")),
              "core", "active", "manual", UNDEF, 0) }

\* Patches a caller passes to FeedManager.updateFeed
Patches ==
  { [status |-> "inactive"], [type |-> "publisher"], [originalUrl |-> "uA"] }

\* Ids a caller passes to updateFeed, removeFeed
SomeIds(feeds) == {IdOf(feeds[i]) : i \in 1..Len(feeds)} \cup {<<"n","o">>}

----------------------------------------------------------------------------
(* FeedManager (src/lib/feed-manager.ts) *)

\* FeedManager.clearCache
ClearCache ==
  /\ Idle
  /\ feedsData # NULL
  /\ feedsData' = NULL
  /\ last' = [op |-> "clearCache"]
  /\ UNCHANGED <<autoVars, resolveVars, albumVars, file, now, ticks, ops, build, runs, hist>>

\* FeedManager.loadFeeds / getActiveFeeds called by a reader: fills the cache
LoadFeeds ==
  /\ feedsData = NULL
  /\ feedsData' = loadFeeds(feedsData, file, now)
  /\ last' = [op |-> "loadFeeds"]
  /\ UNCHANGED <<autoVars, resolveVars, albumVars, file, now, ticks, ops, build, runs, hist>>

\* The record addFeed appends: the caller's fields, stamped
Stamped(feed, t) == [feed EXCEPT !.addedAt = t, !.lastUpdated = t]

\* FeedManager.addFeed: the registry after the push
AddFeedData(data, feed, t) ==
  [data EXCEPT !.feeds = Append(data.feeds, Stamped(feed, t)), !.lastUpdated = t]

\* FeedManager.addFeed(feed)
FMAddFeed(feed) ==
  /\ Idle /\ ops < MaxOps
  /\ LET data == loadFeeds(feedsData, file, now)
         new == AddFeedData(data, feed, now)
     IN  /\ file' = WriteFeedsData(new)
         /\ feedsData' = new
         /\ last' = [op |-> "FeedManager.addFeed", url |-> feed.originalUrl,
                     pre |-> UrlsIn(data.feeds), ok |-> TRUE,
                     preFile |-> file, preData |-> feedsData,
                     id |-> feed.id, preIds |-> IdsIn(data.feeds)]
  /\ ops' = ops + 1
  /\ UNCHANGED <<autoVars, resolveVars, albumVars, now, ticks, build, runs, hist>>

\* { ...feed, ...updates, lastUpdated: now }
Patched(feed, updates, t) ==
  [ [f \in DOMAIN feed |-> IF f \in DOMAIN updates THEN updates[f] ELSE feed[f]]
      EXCEPT !.lastUpdated = t ]

\* feeds.findIndex(feed => feed.id === id), 0 when there is none
FindIndexById(feeds, id) ==
  IF \E i \in 1..Len(feeds) : IdOf(feeds[i]) = id
  THEN CHOOSE i \in 1..Len(feeds) :
         /\ IdOf(feeds[i]) = id
         /\ \A j \in 1..(i - 1) : IdOf(feeds[j]) # id
  ELSE 0

\* FeedManager.updateFeed(id, updates)
FMUpdateFeed(id, updates) ==
  /\ Idle /\ ops < MaxOps
  /\ LET data == loadFeeds(feedsData, file, now)
         idx == FindIndexById(data.feeds, id)
         new == [data EXCEPT !.feeds[idx] = Patched(data.feeds[idx], updates, now),
                             !.lastUpdated = now]
     IN  IF idx # 0
         THEN /\ file' = WriteFeedsData(new)
              /\ feedsData' = new
              /\ last' = [op |-> "FeedManager.updateFeed", id |-> id, ok |-> TRUE]
         ELSE /\ file' = file
              /\ feedsData' = data
              /\ last' = [op |-> "FeedManager.updateFeed", id |-> id, ok |-> FALSE]
  /\ ops' = ops + 1
  /\ UNCHANGED <<autoVars, resolveVars, albumVars, now, ticks, build, runs, hist>>

\* FeedManager.removeFeed(id)
FMRemoveFeed(id) ==
  /\ Idle /\ ops < MaxOps
  /\ LET data == loadFeeds(feedsData, file, now)
         new == [data EXCEPT !.feeds = SelectSeq(data.feeds, LAMBDA e : IdOf(e) # id),
                             !.lastUpdated = now]
     IN  /\ file' = WriteFeedsData(new)
         /\ feedsData' = new
         /\ last' = [op |-> "FeedManager.removeFeed", id |-> id,
                     ok |-> Len(new.feeds) < Len(data.feeds),
                     signal |-> "none", preFile |-> file,
                     preFeeds |-> data.feeds]
  /\ ops' = ops + 1
  /\ UNCHANGED <<autoVars, resolveVars, albumVars, now, ticks, build, runs, hist>>

----------------------------------------------------------------------------
(* File based feed manager (src/lib/feeds-manager.ts) *)

\* readFeedsFile: the array, or the feeds of the object, or nothing
readFeedsFile(f) ==
  IF f.shape \in {"array", "object"} THEN f.feeds ELSE <<>>

\* writeFeedsFile: a bare array
writeFeedsFile(entries) == ArrayFile(entries)

\* feeds.includes(url): strict equality with a string element
Includes(entries, url) ==
  \E i \in 1..Len(entries) : entries[i].k = "str" /\ entries[i].url = url

\* addFeed(url, ...) of feeds-manager.ts
FsAddFeed(url) ==
  /\ Idle /\ ops < MaxOps
  /\ LET feeds == readFeedsFile(file)
     IN  IF Includes(feeds, url)
         THEN /\ file' = file
              /\ last' = [op |-> "feeds-manager.addFeed", url |-> url,
                          pre |-> UrlsIn(Registry.feeds), ok |-> FALSE,
                          preFile |-> file, preData |-> feedsData,
                          id |-> urlToFeedId(UrlText(url)),
                          preIds |-> IdsIn(Registry.feeds)]
         ELSE /\ file' = writeFeedsFile(Append(feeds, Str(url)))
              /\ last' = [op |-> "feeds-manager.addFeed", url |-> url,
                          pre |-> UrlsIn(Registry.feeds), ok |-> TRUE,
                          preFile |-> file, preData |-> feedsData,
                          id |-> urlToFeedId(UrlText(url)),
                          preIds |-> IdsIn(Registry.feeds)]
  /\ ops' = ops + 1
  /\ UNCHANGED <<autoVars, resolveVars, albumVars, feedsData, now, ticks, build, runs, hist>>

\* removeFeed(feedId) of feeds-manager.ts: urlToFeed throws on an element
\* that is not a string, and the catch reports the failure
FsRemoveFeed(feedId) ==
  /\ Idle /\ ops < MaxOps
  /\ LET feeds == readFeedsFile(file)
         throws == \E i \in 1..Len(feeds) : feeds[i].k # "str"
         filtered == SelectSeq(feeds, LAMBDA e : urlToFeedId(UrlText(e.url)) # feedId)
     IN  IF throws \/ Len(filtered) = Len(feeds)
         THEN /\ file' = file
              /\ last' = [op |-> "feeds-manager.removeFeed", id |-> feedId, ok |-> FALSE,
                          signal |-> IF throws THEN "error" ELSE "Feed not found",
                          preFile |-> file, preFeeds |-> feeds]
         ELSE /\ file' = writeFeedsFile(filtered)
              /\ last' = [op |-> "feeds-manager.removeFeed", id |-> feedId, ok |-> TRUE,
                          signal |-> "success", preFile |-> file, preFeeds |-> feeds]
  /\ ops' = ops + 1
  /\ UNCHANGED <<autoVars, resolveVars, albumVars, feedsData, now, ticks, build, runs, hist>>

----------------------------------------------------------------------------
(* buildRSSData (src/scripts/build-rss-data.ts): reclassification, then     *)
(* publisher discovery.  Each await is a step.                              *)

IdleBuild == [pc |-> "idle"]

\* feedsToCheck without the test of the type
FeedsToCheck_all(feeds) ==
  LET idx == [i \in 1..Len(feeds) |-> i]
  IN  SelectSeq(idx, LAMBDA i : StatusOf(feeds[i]) = "active")

\* feedsToCheck of detectAndUpdateFeedTypes, as positions in feedsData.feeds
FeedsToCheck(feeds) ==
  LET idx == [i \in 1..Len(feeds) |-> i]
  IN  SelectSeq(idx, LAMBDA i : TypeOf(feeds[i]) = "album" /\ StatusOf(feeds[i]) = "active")

\* publisherFeeds of buildRSSData
PublisherFeedsOf(data) == SelectSeq(ActiveOf(data), LAMBDA e : TypeOf(e) = "publisher")

\* After detectAndUpdateFeedTypes: clearCache, getActiveFeeds, and the loop
\* over the publisher feeds; with none, Step 2 reloads once more
EnterDiscovery(f, t) ==
  LET data == ReadFeedsJson(f, t)
      pubs == PublisherFeedsOf(data)
  IN  [cache |-> data,
       build |-> IF Len(pubs) = 0 THEN IdleBuild
                 ELSE [pc |-> "discover", pubs |-> pubs, i |-> 1,
                       discovered |-> <<>>, feedsUpdated |-> FALSE]]

\* buildRSSData up to the first await of detectAndUpdateFeedTypes
BuildStart ==
  /\ Idle /\ runs < MaxRuns
  /\ runs' = runs + 1
  /\ LET data == loadFeeds(feedsData, file, now)
         check == FeedsToCheck(data.feeds)
     IN  IF Len(check) = 0
         THEN /\ feedsData' = EnterDiscovery(file, now).cache
              /\ build' = EnterDiscovery(file, now).build
         ELSE /\ feedsData' = data
              /\ build' = [pc |-> "detect", check |-> check, i |-> 1, hasUpdates |-> FALSE]
  /\ last' = [op |-> "buildRSSData"]
  /\ UNCHANGED <<autoVars, resolveVars, albumVars, file, now, ticks, ops, hist>>

\* DetectStep with the try around the whole loop: a throw ends the batch
DetectStep_abort(answers) ==
  /\ build.pc = "detect"
  /\ LET idx == build.check[build.i]
         feed == feedsData.feeds[idx]
         differs == answers /\ RemoteType(feed.originalUrl) # feed.type
         data == IF differs
                 THEN [feedsData EXCEPT !.feeds[idx].type = RemoteType(feed.originalUrl),
                                        !.feeds[idx].lastUpdated = now]
                 ELSE feedsData
         hasUpdates == build.hasUpdates \/ differs
         toSave == FeedsData(data.feeds, now, data.version)
         saved == IF hasUpdates THEN WriteFeedsData(toSave) ELSE file
     IN  IF answers /\ build.i < Len(build.check)
         THEN /\ feedsData' = data
              /\ file' = file
              /\ build' = [build EXCEPT !.i = build.i + 1, !.hasUpdates = hasUpdates]
         ELSE /\ file' = saved
              /\ feedsData' = EnterDiscovery(saved, now).cache
              /\ build' = EnterDiscovery(saved, now).build
  /\ last' = [op |-> "detectFeedType", ok |-> answers, i |-> build.i,
              url |-> feedsData.feeds[build.check[build.i]].originalUrl,
              type |-> feedsData.feeds[build.check[build.i]].type]
  /\ UNCHANGED <<autoVars, resolveVars, albumVars, now, ticks, ops, runs, hist>>

\* One iteration of the loop of detectAndUpdateFeedTypes: detectFeedType
\* answers or throws; after the last feed the batch is saved
DetectStep(answers) ==
  /\ build.pc = "detect"
  /\ LET idx == build.check[build.i]
         feed == feedsData.feeds[idx]
         differs == answers /\ RemoteType(feed.originalUrl) # feed.type
         data == IF differs
                 THEN [feedsData EXCEPT !.feeds[idx].type = RemoteType(feed.originalUrl),
                                        !.feeds[idx].lastUpdated = now]
                 ELSE feedsData
         hasUpdates == build.hasUpdates \/ differs
         toSave == FeedsData(data.feeds, now, data.version)
         saved == IF hasUpdates THEN WriteFeedsData(toSave) ELSE file
     IN  IF build.i < Len(build.check)
         THEN /\ feedsData' = data
              /\ file' = file
              /\ build' = [build EXCEPT !.i = build.i + 1, !.hasUpdates = hasUpdates]
         ELSE /\ file' = saved
              /\ feedsData' = EnterDiscovery(saved, now).cache
              /\ build' = EnterDiscovery(saved, now).build
  /\ last' = [op |-> "detectFeedType", ok |-> answers, i |-> build.i,
              url |-> feedsData.feeds[build.check[build.i]].originalUrl,
              type |-> feedsData.feeds[build.check[build.i]].type]
  /\ UNCHANGED <<autoVars, resolveVars, albumVars, now, ticks, ops, runs, hist>>

\* id of a discovered feed: item.feedGuid || derived from the url
DiscoveredId(item) ==
  IF item.feedGuid # UNDEFSTR /\ Len(item.feedGuid) > 0 THEN item.feedGuid
  ELSE discoveredFeedId(UrlText(item.feedUrl))

\* title of a discovered feed: item.title || `Feed from ${hostname}`
DiscoveredTitle(item) ==
  IF item.title # UNDEFSTR /\ Len(item.title) > 0 THEN item.title
  ELSE FeedFromTitle(UrlText(item.feedUrl))

\* existingUrls of one publisher feed: the urls of getActiveFeeds()
ExistingUrls(data) == {UrlOf(e) : e \in Range(ActiveOf(data))}

\* Registers without the membership test on the seen urls
Registers_noSeenCheck(item, existing) ==
  /\ item.feedUrl # UNDEF
  /\ item.medium = "music"

\* The item is registered: it has a url, is music, and the url is not seen
Registers(item, existing) ==
  /\ item.feedUrl # UNDEF
  /\ item.medium = "music"
  /\ item.feedUrl \notin existing

\* The inner loop of buildRSSData over the remoteItems of one publisher feed
RECURSIVE DiscoverItems(_, _, _, _, _, _)
DiscoverItems(items, data, existing, added, pubUrl, t) ==
  IF Len(items) = 0 THEN [data |-> data, added |-> added]
  ELSE LET item == items[1]
       IN  IF Registers(item, existing)
           THEN DiscoverItems(Tail(items),
                  AddFeedData(data,
                    Feed(DiscoveredId(item), item.feedUrl, "album", DiscoveredTitle(item),
                         "extended", "active", "recursive", pubUrl, t), t),
                  existing \cup {item.feedUrl},
                  Append(added, item.feedUrl), pubUrl, t)
           ELSE DiscoverItems(Tail(items), data, existing, added, pubUrl, t)

\* One iteration of the loop over the publisher feeds: parsePublisherFeed
\* answers or throws; after the last one the registry is reloaded
DiscoverStep(answers) ==
  /\ build.pc = "discover"
  /\ LET pub == build.pubs[build.i]
         data == loadFeeds(feedsData, file, now)
         items == IF answers THEN Manifest(pub.originalUrl) ELSE <<>>
         r == DiscoverItems(items, data, ExistingUrls(data), <<>>, pub.originalUrl, now)
         wrote == Len(r.added) > 0
         f == IF wrote THEN WriteFeedsData(r.data) ELSE file
     IN  /\ file' = f
         /\ hist' = Append(hist, [run |-> runs, pub |-> pub.originalUrl, ok |-> answers,
                                  added |-> r.added, pre |-> UrlsIn(data.feeds),
                                  post |-> UrlsIn(r.data.feeds), ops |-> ops])
         /\ last' = [op |-> "discover", pub |-> pub.originalUrl, added |-> r.added,
                     pre |-> UrlsIn(data.feeds)]
         /\ IF build.i < Len(build.pubs)
            THEN /\ feedsData' = IF wrote THEN r.data ELSE data
                 /\ build' = [build EXCEPT !.i = build.i + 1,
                                !.discovered = build.discovered \o r.added,
                                !.feedsUpdated = build.feedsUpdated \/ wrote]
            ELSE /\ feedsData' = ReadFeedsJson(f, now)
                 /\ build' = IdleBuild
  /\ UNCHANGED <<autoVars, resolveVars, albumVars, now, ticks, ops, runs>>

----------------------------------------------------------------------------
(* AlbumsService (src/lib/albums-service.ts) *)

\* An album as it appears in a result or a snapshot
Album(title, feedId, feedUrl, lastUpdated) ==
  [title |-> title, feedId |-> feedId, feedUrl |-> feedUrl, lastUpdated |-> lastUpdated]

\* public/static-albums.json and public/albums-static-cached.json
MissingSnapshot == [shape |-> "missing"]
CorruptSnapshot == [shape |-> "corrupt"]
Snapshot(albums, count) == [shape |-> "object", albums |-> albums, count |-> count]

SnapA == Album(ParsedTitle("uA"), IdA, "uA", 0)
SnapB == Album(ParsedTitle("uB"), discoveredFeedId(UrlText("uB")), "uB", 0)

\* Contents of static-albums.json
StaticFiles ==
  { MissingSnapshot, CorruptSnapshot, Snapshot(<<>>, 0), Snapshot(<<SnapA, SnapB>>, 2) }

ErrorEntry(feedId, error) == [feedId |-> feedId, error |-> error]

\* An AlbumsResult; errors is absent when hasErrors is FALSE, cacheAge is
\* absent when cached is FALSE
Result(albums, count, t, source, static, fallback, hasErrors, errors) ==
  [albums |-> albums, count |-> count, timestamp |-> t, source |-> source,
   static |-> static, fallback |-> fallback, hasErrors |-> hasErrors, errors |-> errors,
   cached |-> FALSE, cacheAge |-> 0]

\* errors: includeErrors ? [entry] : undefined
ErrorsIf(includeErrors, entries) == IF includeErrors THEN entries ELSE <<>>

\* The empty result of fetchFromStaticFile
StaticUnavailable(t) == Result(<<>>, 0, t, UNDEF, FALSE, TRUE, FALSE, <<>>)

\* fetchFromStaticFile, filesystem branch: JSON.parse throwing is caught
fetchFromStaticFile(f, t) ==
  IF f.shape = "object"
  THEN Result(f.albums, Len(f.albums), t, "static-file", TRUE, FALSE, FALSE, <<>>)
  ELSE StaticUnavailable(t)

\* fetchFromStaticCachedFile, filesystem branch
fetchFromStaticCachedFile(f, t) ==
  IF f.shape = "object"
  THEN Result(f.albums, IF f.count # 0 THEN f.count ELSE Len(f.albums), t,
              "static-cached-file", TRUE, FALSE, FALSE, <<>>)
  ELSE Result(<<>>, 0, t, "static-cached-file", FALSE, TRUE, FALSE, <<>>)

\* Math.round(ms / 1000) for ms >= 0
RoundSeconds(ms) == (ms + 500) \div 1000

\* The cache test of fetchAlbums
CacheValid_inclusive(cache, stamp, t, forceRegenerate) ==
  ~forceRegenerate /\ cache # NULL /\ (t - stamp) <= CACHE_TTL

CacheValid(cache, stamp, t, forceRegenerate) ==
  ~forceRegenerate /\ cache # NULL /\ (t - stamp) < CACHE_TTL

CacheHit_staleAge(cache, stamp, t) ==
  [cache EXCEPT !.cached = TRUE, !.cacheAge = 0]

\* { ...memoryCache, cached: true, cacheAge }
CacheHit(cache, stamp, t) ==
  [cache EXCEPT !.cached = TRUE, !.cacheAge = RoundSeconds(t - stamp)]

\* fetchFromFeedManager with no active feeds, or no album feeds: the static
\* file when it has albums, else an empty result
NoFeedsResult(f, t, includeErrors, what) ==
  LET staticResult == fetchFromStaticFile(f, t)
  IN  IF Len(staticResult.albums) > 0
      THEN [staticResult EXCEPT !.fallback = TRUE, !.hasErrors = includeErrors,
              !.errors = ErrorsIf(includeErrors, <<ErrorEntry(<<"n","o","n","e">>, what)>>)]
      ELSE Result(<<>>, 0, t, "dynamic", FALSE, FALSE, includeErrors,
                  ErrorsIf(includeErrors, <<ErrorEntry(<<"n","o","n","e">>, what)>>))

AlbumFeedsOf_allActive(data, priority) ==
  LET albumFeeds == ActiveOf(data)
  IN  IF priority # UNDEF
      THEN SelectSeq(albumFeeds, LAMBDA e : PriorityOf(e) = priority)
      ELSE albumFeeds

\* albumFeeds of fetchFromFeedManager
AlbumFeedsOf(data, priority) ==
  LET albumFeeds == SelectSeq(ActiveOf(data), LAMBDA e : TypeOf(e) = "album")
  IN  IF priority # UNDEF
      THEN SelectSeq(albumFeeds, LAMBDA e : PriorityOf(e) = priority)
      ELSE albumFeeds

\* getAllFeeds of feeds-manager.ts: urlToFeed throws on an element that is
\* not a string
getAllFeedsThrows(f) ==
  \E i \in 1..Len(readFeedsFile(f)) : readFeedsFile(f)[i].k # "str"

\* urlToFeed(url)
urlToFeed(u, t) ==
  Feed(urlToFeedId(UrlText(u)), u, "album", urlToFeedTitle(UrlText(u)),
       "core", "active", "manual", UNDEF, t)

getAllFeeds(f, t) ==
  [i \in 1..Len(readFeedsFile(f)) |-> urlToFeed(readFeedsFile(f)[i].url, t)]

\* What one feed adds to the pass of fetchFromFeedManager: the parse returns
\* data, returns nothing, throws, or loses the race against the timer
DynamicFeedStep_dropsError(pass, feed, outcome, includeErrors) ==
  IF outcome = "album"
  THEN [pass EXCEPT !.albums = Append(pass.albums,
          Album(ParsedTitle(feed.originalUrl), feed.id, feed.originalUrl, feed.lastUpdated))]
  ELSE pass

DynamicFeedStep_unshift(pass, feed, outcome, includeErrors) ==
  IF outcome = "album"
  THEN [pass EXCEPT !.albums = <<Album(ParsedTitle(feed.originalUrl), feed.id, feed.originalUrl,
                                      feed.lastUpdated)>> \o pass.albums]
  ELSE IF includeErrors
  THEN [pass EXCEPT !.errors = Append(pass.errors, ErrorEntry(feed.id, outcome))]
  ELSE pass

DynamicFeedStep(pass, feed, outcome, includeErrors) ==
  IF outcome = "album"
  THEN [pass EXCEPT !.albums = Append(pass.albums,
          Album(ParsedTitle(feed.originalUrl), feed.id, feed.originalUrl, feed.lastUpdated))]
  ELSE IF includeErrors
  THEN [pass EXCEPT !.errors = Append(pass.errors, ErrorEntry(feed.id, outcome))]
  ELSE pass

\* The same for fetchFromDatabase: no timer, and no entry for a feed
\* without data
DatabaseFeedStep(pass, feed, outcome, includeErrors) ==
  IF outcome = "album"
  THEN [pass EXCEPT !.albums = Append(pass.albums,
          Album(ParsedTitle(feed.originalUrl), feed.id, feed.originalUrl, feed.lastUpdated))]
  ELSE IF outcome = "throw" /\ includeErrors
  THEN [pass EXCEPT !.errors = Append(pass.errors, ErrorEntry(feed.id, outcome))]
  ELSE pass

\* The result a finished pass builds, and stores in the memory cache
PassResult(pass, t, includeErrors, source) ==
  Result(pass.albums, Len(pass.albums), t, source, FALSE, FALSE,
         includeErrors /\ Len(pass.errors) > 0,
         IF includeErrors THEN pass.errors ELSE <<>>)

AutoAfterDynamic_dropsErrors(dynamicResult, f, t) ==
  LET staticResult == fetchFromStaticFile(f, t)
  IN  IF Len(dynamicResult.albums) > 0
      THEN [dynamicResult EXCEPT !.hasErrors = FALSE, !.errors = <<>>]
      ELSE IF Len(staticResult.albums) > 0
      THEN [staticResult EXCEPT !.fallback = TRUE, !.hasErrors = dynamicResult.hasErrors,
                                !.errors = dynamicResult.errors]
      ELSE dynamicResult

\* fetchAuto after the dynamic parse
AutoAfterDynamic(dynamicResult, f, t) ==
  LET staticResult == fetchFromStaticFile(f, t)
  IN  IF Len(dynamicResult.albums) > 0 THEN dynamicResult
      ELSE IF Len(staticResult.albums) > 0
      THEN [staticResult EXCEPT !.fallback = TRUE, !.hasErrors = dynamicResult.hasErrors,
                                !.errors = dynamicResult.errors]
      ELSE dynamicResult

\* Identifiers a client requests from GET /api/album/[id]
ResolveIds == { IdP, <<"x">>, <<"b", "-", "e">> }

NoAlbumCache == [id \in ResolveIds |-> NULL]
NoResp == [op |-> "none"]

\* Options a caller passes to fetchAlbums
Opts(source, forceRegenerate, clearCache, priority, includeErrors) ==
  [source |-> source, forceRegenerate |-> forceRegenerate, clearCache |-> clearCache,
   priority |-> priority, includeErrors |-> includeErrors]

Options ==
  { Opts("auto", FALSE, FALSE, UNDEF, TRUE), Opts("auto", TRUE, FALSE, UNDEF, TRUE),
    Opts("auto", FALSE, FALSE, UNDEF, FALSE), Opts("auto", FALSE, TRUE, UNDEF, TRUE),
    Opts("dynamic", FALSE, FALSE, UNDEF, TRUE), Opts("dynamic", FALSE, FALSE, "low", TRUE),
    Opts("database", FALSE, FALSE, UNDEF, TRUE), Opts("database", FALSE, FALSE, UNDEF, FALSE),
    Opts("static", FALSE, FALSE, UNDEF, TRUE), Opts("static-cached", FALSE, FALSE, UNDEF, TRUE) }

\* What RSSParser.parseAlbumFeed does for one feed: album data, nothing, or a
\* rejection (a network or parse error)
Outcomes == {"album", "null", "throw"}

NoCall == [pc |-> "idle"]
NoRet == [op |-> "none"]
NoPass == [albums |-> <<>>, errors |-> <<>>, got |-> <<>>]
NothingStored == [at |-> 0, cleared |-> TRUE]

\* A snapshot read that fails: the file is missing or is not JSON
SnapshotFails(f) == f.shape # "object"

\* The completed call, as the caller and the checks see it
Returned(opts, result, hit, kept, ghost, got, ran, snapFailed, regFailed) ==
  [op |-> "fetchAlbums", opts |-> opts, result |-> result, hit |-> hit, kept |-> kept,
   at |-> now, ghost |-> ghost, got |-> got, ran |-> ran,
   snapFailed |-> snapFailed, regFailed |-> regFailed,
   prev |-> IF ret.op = "none" THEN NoRet
            ELSE [op |-> ret.op, forceRegenerate |-> ret.opts.forceRegenerate,
                  albums |-> ret.result.albums, kept |-> ret.kept]]

\* The cache as fetchAlbums sees it after its clearCache handling
ClearedIf(clear, value, cleared) == IF clear THEN cleared ELSE value

\* What the caller of the dynamic pass does with its result
Routed(mode, result) ==
  IF mode = "auto" THEN AutoAfterDynamic(result, staticFile, now) ELSE result

\* A pass that ends: the result is stored in the memory cache and returned
FinishPass(mode, opts, pass, ghost) ==
  LET source == IF mode = "database" THEN "database-feeds" ELSE "direct-rss-parsing"
      result == PassResult(pass, now, opts.includeErrors, source)
  IN  /\ memoryCache' = result
      /\ cacheTimestamp' = now
      /\ stored' = [at |-> now, cleared |-> FALSE]
      /\ call' = NoCall
      /\ ret' = Returned(opts, Routed(mode, result), FALSE, Routed(mode, result) = result,
                         ghost, pass.got, TRUE,
                         /\ mode = "auto" /\ SnapshotFails(staticFile)
                         /\ (~opts.forceRegenerate \/ Len(pass.albums) = 0),
                         FALSE)

\* A call that returns without a pass and without touching the cache
ReturnNow(opts, result, hit, ghost, snapFailed, regFailed, cache, stamp) ==
  /\ memoryCache' = cache
  /\ cacheTimestamp' = stamp
  /\ stored' = ghost
  /\ call' = NoCall
  /\ ret' = Returned(opts, result, hit, hit, ghost, <<>>, FALSE, snapFailed, regFailed)

\* fetchFromFeedManager up to its first parse
StartDynamic(mode, opts, ghost, cache, stamp) ==
  LET data == loadFeeds(feedsData, file, now)
      feeds == ActiveOf(data)
      albumFeeds == AlbumFeedsOf(data, opts.priority)
  IN  /\ feedsData' = data
      /\ IF Len(feeds) = 0
         THEN ReturnNow(opts, Routed(mode, NoFeedsResult(staticFile, now, opts.includeErrors,
                                                         "No active feeds found")),
                        FALSE, ghost, SnapshotFails(staticFile), file.shape # "object",
                        cache, stamp)
         ELSE IF Len(albumFeeds) = 0
         THEN ReturnNow(opts, Routed(mode, NoFeedsResult(staticFile, now, opts.includeErrors,
                                                         "No album feeds found")),
                        FALSE, ghost, SnapshotFails(staticFile), FALSE, cache, stamp)
         ELSE /\ call' = [pc |-> "parse", mode |-> mode, opts |-> opts, feeds |-> albumFeeds,
                          i |-> 1, pass |-> NoPass, ghost |-> ghost]
              /\ memoryCache' = cache
              /\ cacheTimestamp' = stamp
              /\ stored' = ghost
              /\ ret' = ret

\* fetchFromDatabase up to its first parse
StartDatabase(opts, ghost, cache, stamp) ==
  LET dbFeeds == getAllFeeds(file, now)
  IN  /\ feedsData' = feedsData
      /\ IF getAllFeedsThrows(file)
         THEN ReturnNow(opts, fetchFromStaticFile(staticFile, now), FALSE, ghost,
                        SnapshotFails(staticFile), TRUE, cache, stamp)
         ELSE IF Len(dbFeeds) = 0
         THEN /\ FinishPass("database", opts, NoPass, ghost)
         ELSE /\ call' = [pc |-> "parse", mode |-> "database", opts |-> opts, feeds |-> dbFeeds,
                          i |-> 1, pass |-> NoPass, ghost |-> ghost]
              /\ memoryCache' = cache
              /\ cacheTimestamp' = stamp
              /\ stored' = ghost
              /\ ret' = ret

\* fetchAlbums(options), up to its first await on a feed
FetchAlbumsCall(opts) ==
  /\ call.pc = "idle"
  /\ calls' = calls + 1
  /\ LET cache == ClearedIf(opts.clearCache, memoryCache, NULL)
         stamp == ClearedIf(opts.clearCache, cacheTimestamp, 0)
         ghost == ClearedIf(opts.clearCache, stored, [stored EXCEPT !.cleared = TRUE])
         staticResult == fetchFromStaticFile(staticFile, now)
     IN  IF CacheValid(cache, stamp, now, opts.forceRegenerate)
         THEN /\ ReturnNow(opts, CacheHit(cache, stamp, now), TRUE, ghost, FALSE, FALSE,
                           cache, stamp)
              /\ feedsData' = feedsData
         ELSE CASE opts.source = "static" ->
                     /\ ReturnNow(opts, staticResult, FALSE, ghost,
                                  SnapshotFails(staticFile), FALSE, cache, stamp)
                     /\ feedsData' = feedsData
                [] opts.source = "static-cached" ->
                     /\ ReturnNow(opts, fetchFromStaticCachedFile(cachedFile, now), FALSE, ghost,
                                  SnapshotFails(cachedFile), FALSE, cache, stamp)
                     /\ feedsData' = feedsData
                [] opts.source = "dynamic" -> StartDynamic("dynamic", opts, ghost, cache, stamp)
                [] opts.source = "database" -> StartDatabase(opts, ghost, cache, stamp)
                [] opts.source = "auto" ->
                     IF ~opts.forceRegenerate /\ Len(staticResult.albums) > 0
                     THEN /\ ReturnNow(opts, staticResult, FALSE, ghost, FALSE, FALSE,
                                       cache, stamp)
                          /\ feedsData' = feedsData
                     ELSE StartDynamic("auto", opts, ghost, cache, stamp)
  /\ UNCHANGED <<resolveVars, file, now, ticks, ops, last, build, runs, hist, staticFile, cachedFile,
                 abandoned>>

\* fetchAlbums called by a route
FetchAlbums(opts) ==
  /\ calls < MaxCalls
  /\ FetchAlbumsCall(opts)
  /\ UNCHANGED autoVars

\* How the registry of FeedManager holds the feed of a url
KnownAs(data, url) ==
  LET hits == SelectSeq(data.feeds, LAMBDA e : UrlOf(e) = url)
  IN  IF Len(hits) = 0 THEN [type |-> "none", status |-> "none"]
      ELSE [type |-> TypeOf(hits[1]), status |-> StatusOf(hits[1])]

\* One feed of the pass in flight, and the end of the pass after the last
ParseAdvance(outcome) ==
  /\ call.pc = "parse"
  /\ LET feed == call.feeds[call.i]
         step == IF call.mode = "database"
                 THEN DatabaseFeedStep(call.pass, feed, outcome, call.opts.includeErrors)
                 ELSE DynamicFeedStep(call.pass, feed, outcome, call.opts.includeErrors)
         known == KnownAs(loadFeeds(feedsData, file, now), feed.originalUrl)
         pass == [step EXCEPT !.got = Append(@, [id |-> feed.id, url |-> feed.originalUrl,
                                                  outcome |-> outcome,
                                                  type |-> known.type, status |-> known.status])]
     IN  IF call.i < Len(call.feeds)
         THEN /\ call' = [call EXCEPT !.i = @ + 1, !.pass = pass]
              /\ UNCHANGED <<autoVars, resolveVars, memoryCache, cacheTimestamp, stored, ret>>
         ELSE FinishPass(call.mode, call.opts, pass, call.ghost)
  /\ UNCHANGED <<autoVars, resolveVars, file, feedsData, now, ticks, ops, last, build, runs, hist,
                 staticFile, cachedFile, calls>>

\* The awaited parse settles first: album data, nothing, or a rejection
ParseStep(outcome) ==
  /\ ParseAdvance(outcome)
  /\ abandoned' = abandoned

\* A parse the race no longer waits for
Abandoned(n, id, settled) == [call |-> n, id |-> id, settled |-> settled]

\* The timer of Promise.race settles first: the race rejects, the catch
\* records the feed, and the parse stays in flight.  fetchFromDatabase has
\* no timer
ParseTimeout ==
  /\ call.pc = "parse"
  /\ call.mode # "database"
  /\ Cardinality(abandoned) < MaxAbandoned
  /\ ParseAdvance("timeout")
  /\ abandoned' = abandoned \cup {Abandoned(calls, call.feeds[call.i].id, "pending")}

LateAlbums_pushes(albums, a, outcome) ==
  IF outcome = "album" THEN Append(albums, Album(<<"l","a","t","e">>, a.id, UNDEF, 0))
  ELSE albums

\* The album list of a pass after an abandoned parse of it settles: the
\* parse promise has no continuation but the race, which has settled
LateAlbums(albums, a, outcome) == albums

\* The same for a result that holds the list
LateResult(result, a, outcome) ==
  IF result = NULL THEN result
  ELSE [result EXCEPT !.albums = LateAlbums(result.albums, a, outcome)]

\* An abandoned parse settles, during its pass or after it
LateCompletion(a, outcome) ==
  /\ a \in abandoned /\ a.settled = "pending"
  /\ abandoned' = (abandoned \ {a}) \cup {Abandoned(a.call, a.id, outcome)}
  /\ IF a.call = calls /\ call.pc = "parse"
     THEN /\ call' = [call EXCEPT !.pass.albums = LateAlbums(call.pass.albums, a, outcome)]
          /\ UNCHANGED <<memoryCache, ret>>
     ELSE IF a.call = calls /\ ret.ran
     THEN /\ memoryCache' = LateResult(memoryCache, a, outcome)
          /\ ret' = [ret EXCEPT !.result = IF ret.kept THEN LateResult(ret.result, a, outcome)
                                           ELSE ret.result]
          /\ call' = call
     ELSE UNCHANGED <<memoryCache, ret, call>>
  /\ UNCHANGED <<autoVars, resolveVars, file, feedsData, now, ticks, ops, last, build, runs, hist,
                 staticFile, cachedFile, cacheTimestamp, calls, stored>>

\* AlbumsService.clearCache()
AlbumsClearCache ==
  /\ memoryCache # NULL
  /\ memoryCache' = NULL
  /\ cacheTimestamp' = 0
  /\ stored' = [stored EXCEPT !.cleared = TRUE]
  /\ UNCHANGED <<autoVars, resolveVars, file, feedsData, now, ticks, ops, last, build, runs, hist,
                 staticFile, cachedFile, call, calls, ret, abandoned>>

\* Time passes, half a cache lifetime at a time.  The service reads the clock
\* only against cacheTimestamp, so the clock is advanced once a result is stored
TickMs == CACHE_TTL \div 2

Tick ==
  /\ ticks < MaxTicks
  /\ stored.at > 0
  /\ now' = now + TickMs
  /\ ticks' = ticks + 1
  /\ UNCHANGED <<autoVars, resolveVars, file, feedsData, ops, last, build, runs, hist, albumVars>>

\* Registry, static-albums.json and albums-static-cached.json at the start
AlbumWorlds ==
  { <<ObjectFile(<<RecP("album"), RecA, RecC>>, 0, 1), s, MissingSnapshot>> : s \in StaticFiles }
  \cup { <<ArrayFile(<<Str("uA")>>), s, MissingSnapshot>> :
            s \in {Snapshot(<<>>, 0), Snapshot(<<SnapA, SnapB>>, 2)} }
  \cup { <<MissingFile, s, MissingSnapshot>> : s \in {CorruptSnapshot, Snapshot(<<SnapA, SnapB>>, 2)} }
  \cup { <<ObjectFile(<<RecP("album"), RecA, RecC>>, 0, 1), Snapshot(<<SnapA, SnapB>>, 2),
           Snapshot(<<SnapA>>, 1)>> }

InitAlbums ==
  /\ \E w \in AlbumWorlds : file = w[1] /\ staticFile = w[2] /\ cachedFile = w[3]
  /\ feedsData = NULL
  /\ now = StartTime
  /\ ticks = 0
  /\ ops = 0
  /\ last = NoOp
  /\ build = IdleBuild
  /\ runs = 0
  /\ hist = <<>>
  /\ memoryCache = NULL
  /\ cacheTimestamp = 0
  /\ call = NoCall
  /\ calls = 0
  /\ ret = NoRet
  /\ stored = NothingStored
  /\ abandoned = {}
  /\ albumCache = NoAlbumCache
  /\ resolves = 0
  /\ resp = NoResp
  /\ AutoIdle

NextAlbums ==
  \/ \E opts \in Options : FetchAlbums(opts)
  \/ \E outcome \in Outcomes : ParseStep(outcome)
  \/ AlbumsClearCache
  \/ Tick

SpecAlbums == InitAlbums /\ [][NextAlbums]_vars

\* The same service with the timer of each parse: a parse may lose the race
\* and settle at any later step.  The callers are ones that reach
\* fetchFromFeedManager, and forceRegenerate runs a second pass past the cache
RaceOptions ==
  { Opts("dynamic", FALSE, FALSE, UNDEF, TRUE), Opts("auto", TRUE, FALSE, UNDEF, TRUE),
    Opts("auto", FALSE, FALSE, UNDEF, FALSE) }

NextRace ==
  \/ \E opts \in RaceOptions : FetchAlbums(opts)
  \/ \E outcome \in Outcomes : ParseStep(outcome)
  \/ ParseTimeout
  \/ \E a \in abandoned, outcome \in Outcomes : LateCompletion(a, outcome)
  \/ AlbumsClearCache

SpecRace == InitAlbums /\ [][NextRace]_vars

----------------------------------------------------------------------------
(* GET /api/album/[id] (src/unnamed/part_008) *)

\* What RSSParser.parseAlbumFeed returns for a feed that answers
ParsedAlbum(url) == [title |-> ParsedTitle(url)]

\* (matchingFeed as any)._parsedAlbumData = albumData, on the registry's object
WithParsed(feed, albumData) ==
  [f \in DOMAIN feed \cup {"_parsedAlbumData"} |->
     IF f = "_parsedAlbumData" THEN albumData ELSE feed[f]]

HasParsed_never(feed) == FALSE

HasParsed(feed) == "_parsedAlbumData" \in DOMAIN feed

\* Positions in data.feeds of the feeds getActiveFeeds returns, in order
ActiveIdx(data) ==
  SelectSeq([i \in 1..Len(data.feeds) |-> i], LAMBDA i : StatusOf(data.feeds[i]) = "active")

TypedIdx(data, type) == SelectSeq(ActiveIdx(data), LAMBDA i : TypeOf(data.feeds[i]) = type)

\* publisherFeeds.find(...): the matching positions, first one first
PublisherMatches(data, albumId) ==
  SelectSeq(TypedIdx(data, "publisher"),
            LAMBDA i : \/ IdOf(data.feeds[i]) = albumId
                       \/ generateSlug(TitleOf(data.feeds[i])) = toLowerCase(albumId))

\* titleMatch || slugMatch || compatMatch || flexibleMatch
TitleMatch(albumTitle, albumId, t) ==
  \/ toLowerCase(albumTitle) = toLowerCase(albumId)
  \/ generateAlbumSlug(albumTitle, t) = toLowerCase(albumId)
  \/ generateSlug(albumTitle) = toLowerCase(albumId)
  \/ generateAlbumSlug(BeforeFirstDash(toLowerCase(albumTitle)), t) = toLowerCase(albumId)

\* The answer of the parser for a url in this request
AnswerOf(answers, url) == IF url \in DOMAIN answers THEN answers[url] ELSE "album"

\* Album feeds with feed.id === albumId
DirectMatches(data, albumId) ==
  SelectSeq(TypedIdx(data, "album"), LAMBDA i : IdOf(data.feeds[i]) = albumId)

\* Album feeds whose parsed title matches the id
TitleMatches(data, albumId, answers, t) ==
  SelectSeq(TypedIdx(data, "album"),
            LAMBDA i : /\ AnswerOf(answers, UrlOf(data.feeds[i])) = "album"
                       /\ Len(ParsedTitle(UrlOf(data.feeds[i]))) > 0
                       /\ TitleMatch(ParsedTitle(UrlOf(data.feeds[i])), albumId, t))

\* staticAlbums.find(...) over static-albums.json
StaticMatches(f, albumId, t) ==
  IF f.shape = "object"
  THEN SelectSeq(f.albums, LAMBDA a : TitleMatch(a.title, albumId, t))
  ELSE <<>>

Response(albumId, status, kind, album, cached, seen) ==
  [op |-> "resolve", id |-> albumId, status |-> status, kind |-> kind,
   album |-> album, cached |-> cached, at |-> now, seen |-> seen]

\* cached && Date.now() - cached.timestamp < ALBUM_CACHE_TTL
CacheEntryValid(entry, t) == entry # NULL /\ t - entry.timestamp < ALBUM_CACHE_TTL

\* GET /api/album/[id]
Resolve(albumId, answers) ==
  /\ resolves < MaxResolves
  /\ resolves' = resolves + 1
  /\ \E data \in {loadFeeds(feedsData, file, now)} :
     \E hit \in {CacheEntryValid(albumCache[albumId], now)} :
     \E publishers \in {PublisherMatches(data, albumId)} :
     \E direct \in {DirectMatches(data, albumId)} :
     \E searched \in {~hit /\ Len(publishers) = 0 /\ Len(direct) = 0} :
     \E byTitle \in {IF searched THEN TitleMatches(data, albumId, answers, now) ELSE <<>>} :
     \E fromStatic \in {IF searched /\ Len(byTitle) = 0
                         THEN StaticMatches(staticFile, albumId, now) ELSE <<>>} :
     LET m == IF Len(direct) > 0 THEN direct[1] ELSE IF Len(byTitle) > 0 THEN byTitle[1] ELSE 0
         found == IF m = 0 THEN NULL
                  ELSE IF Len(direct) = 0
                  THEN WithParsed(data.feeds[m], ParsedAlbum(UrlOf(data.feeds[m])))
                  ELSE data.feeds[m]
         answer == IF m = 0 THEN "none" ELSE AnswerOf(answers, UrlOf(data.feeds[m]))
         albumData == IF m # 0 /\ HasParsed(found) THEN found._parsedAlbumData
                      ELSE IF answer = "album" THEN ParsedAlbum(UrlOf(data.feeds[m]))
                      ELSE NULL
         albumFeeds == TypedIdx(data, "album")
         answering == SelectSeq(albumFeeds,
                        LAMBDA i : /\ AnswerOf(answers, UrlOf(data.feeds[i])) = "album"
                                   /\ Len(ParsedTitle(UrlOf(data.feeds[i]))) > 0)
         tried == IF Len(byTitle) = 0 THEN albumFeeds
                  ELSE SelectSeq(albumFeeds, LAMBDA i : i <= byTitle[1])
         parsedIdx == IF hit \/ Len(publishers) > 0 THEN <<>>
                      ELSE (IF Len(direct) > 0 THEN <<>> ELSE tried)
                           \o (IF m # 0 /\ ~HasParsed(found) THEN <<m>> ELSE <<>>)
         seen == [ids |-> [i \in 1..Len(publishers) |-> IdOf(data.feeds[publishers[i]])],
                  parsed |-> [k \in 1..Len(parsedIdx) |->
                                [pos |-> parsedIdx[k],
                                 id |-> IdOf(data.feeds[parsedIdx[k]]),
                                 type |-> TypeOf(data.feeds[parsedIdx[k]]),
                                 status |-> StatusOf(data.feeds[parsedIdx[k]])]],
                  titles |-> IF searched
                             THEN [k \in 1..Len(answering) |->
                                     ParsedTitle(UrlOf(data.feeds[answering[k]]))]
                             ELSE <<>>]
     IN  IF hit
         THEN /\ resp' = Response(albumId, 200, "album", albumCache[albumId].data, TRUE, seen)
              /\ UNCHANGED <<albumCache, feedsData>>
         ELSE IF Len(publishers) > 0
         THEN /\ resp' = Response(albumId, 400, "publisher", NULL, FALSE, seen)
              /\ feedsData' = data
              /\ UNCHANGED albumCache
         ELSE IF m = 0
         THEN /\ resp' = IF Len(fromStatic) > 0
                         THEN Response(albumId, 200, "album",
                                Album(fromStatic[1].title, <<"static-">> \o albumId,
                                      "static-data", now), FALSE, seen)
                         ELSE Response(albumId, 404, "not-found", NULL, FALSE, seen)
              /\ feedsData' = data
              /\ UNCHANGED albumCache
         ELSE /\ feedsData' = [data EXCEPT !.feeds[m] = found]
              /\ IF albumData = NULL
                 THEN /\ resp' = IF answer = "throw"
                                 THEN Response(albumId, 404, "not-found", NULL, FALSE, seen)
                                 ELSE Response(albumId, 500, "parse-failed", NULL, FALSE, seen)
                      /\ UNCHANGED albumCache
                 ELSE LET album == Album(albumData.title, IdOf(found), UrlOf(found),
                                         found.lastUpdated)
                      IN  /\ resp' = Response(albumId, 200, "album", album, FALSE, seen)
                          /\ albumCache' = [albumCache EXCEPT
                                              ![albumId] = [data |-> album, timestamp |-> now]]
  /\ UNCHANGED <<file, now, ticks, ops, last, build, runs, hist, albumVars, autoVars>>

\* Time passes for the album route, half a cache lifetime at a time, once
\* albumCache holds an entry
ResolveTickMs == ALBUM_CACHE_TTL \div 2

TickResolve ==
  /\ ticks < MaxTicks
  /\ \E id \in ResolveIds : albumCache[id] # NULL
  /\ now' = now + ResolveTickMs
  /\ ticks' = ticks + 1
  /\ UNCHANGED <<file, feedsData, ops, last, build, runs, hist, albumVars, resolveVars, autoVars>>

ResolveWorlds ==
  { <<ObjectFile(<<RecP(type), RecA, RecC>>, 0, 1), s>> :
      type \in {"album", "publisher"}, s \in {MissingSnapshot, Snapshot(<<SnapA, SnapB>>, 2)} }

InitResolve ==
  /\ \E w \in ResolveWorlds : file = w[1] /\ staticFile = w[2]
  /\ feedsData = NULL
  /\ now = StartTime
  /\ ticks = 0
  /\ ops = 0
  /\ last = NoOp
  /\ build = IdleBuild
  /\ runs = 0
  /\ hist = <<>>
  /\ cachedFile = MissingSnapshot
  /\ memoryCache = NULL
  /\ cacheTimestamp = 0
  /\ call = NoCall
  /\ calls = 0
  /\ ret = NoRet
  /\ stored = NothingStored
  /\ abandoned = {}
  /\ albumCache = NoAlbumCache
  /\ resolves = 0
  /\ resp = NoResp
  /\ AutoIdle

NextResolve ==
  \/ \E albumId \in ResolveIds, answers \in [{"uP", "uA"} -> Outcomes] : Resolve(albumId, answers)
  \/ TickResolve
  \/ ClearCache
  \/ \E feed \in NewFeeds : FMAddFeed(feed)
  \/ \E id \in SomeIds(Registry.feeds), updates \in Patches : FMUpdateFeed(id, updates)
  \/ \E id \in SomeIds(Registry.feeds) : FMRemoveFeed(id)

SpecResolve == InitResolve /\ [][NextResolve]_vars

\* The server process: the album route and the aggregation service read the
\* same FeedManager registry
ServerWorlds ==
  { <<f, MissingSnapshot>> :
      f \in { ObjectFile(<<RecP("album"), RecA, RecC>>, 0, 1),
              ObjectFile(<<RecP("publisher"), RecA, RecC>>, 0, 1),
              ArrayFile(<<Str("uP"), Str("uA")>>) } }

ServerOptions ==
  { Opts("dynamic", FALSE, FALSE, UNDEF, TRUE), Opts("database", FALSE, FALSE, UNDEF, TRUE),
    Opts("auto", TRUE, FALSE, UNDEF, TRUE) }

InitServer ==
  /\ \E w \in ServerWorlds : file = w[1] /\ staticFile = w[2]
  /\ feedsData = NULL
  /\ now = StartTime
  /\ ticks = 0
  /\ ops = 0
  /\ last = NoOp
  /\ build = IdleBuild
  /\ runs = 0
  /\ hist = <<>>
  /\ cachedFile = MissingSnapshot
  /\ memoryCache = NULL
  /\ cacheTimestamp = 0
  /\ call = NoCall
  /\ calls = 0
  /\ ret = NoRet
  /\ stored = NothingStored
  /\ abandoned = {}
  /\ albumCache = NoAlbumCache
  /\ resolves = 0
  /\ resp = NoResp
  /\ AutoIdle

\* The parser answers every feed of a request with an album, or none of
\* them, or only the second
ServerAnswers ==
  {[u \in {"uP", "uA"} |-> outcome] : outcome \in {"album", "null"}}
    \cup {[u \in {"uP", "uA"} |-> IF u = "uA" THEN "album" ELSE "throw"]}

NextServer ==
  \/ \E albumId \in ResolveIds, answers \in ServerAnswers : Resolve(albumId, answers)
  \/ \E opts \in ServerOptions : FetchAlbums(opts)
  \/ \E outcome \in Outcomes : ParseStep(outcome)

SpecServer == InitServer /\ [][NextServer]_vars

----------------------------------------------------------------------------
(* auto-feed-processor (src/unnamed/part_004) *)

\* An element of feeds.json that is not a string, as getCurrentFeeds returns
\* it from the array form: an object of this parse, equal to no earlier one
OBJ == "object"

\* getCurrentFeeds: the urls of the active records of the object form, or
\* the elements of the array form, or nothing
getCurrentFeeds(f) ==
  IF f.shape = "object"
  THEN LET act == SelectSeq(f.feeds, LAMBDA e : StatusOf(e) = "active")
       IN  [i \in 1..Len(act) |-> UrlOf(act[i])]
  ELSE IF f.shape = "array"
  THEN [i \in 1..Len(f.feeds) |-> IF f.feeds[i].k = "str" THEN f.feeds[i].url ELSE OBJ]
  ELSE <<>>

\* lastProcessedFeeds.includes(feed)
IncludesFeed(feeds, feed) == feed # OBJ /\ \E i \in 1..Len(feeds) : feeds[i] = feed

\* hasNewFeeds: the answer, and lastProcessedFeeds after the call
hasNewFeeds(lastProcessed, currentFeeds) ==
  IF Len(lastProcessed) = 0
  THEN [new |-> Len(currentFeeds) > 0, last |-> currentFeeds]
  ELSE IF \E i \in 1..Len(currentFeeds) : ~IncludesFeed(lastProcessed, currentFeeds[i])
  THEN [new |-> TRUE, last |-> currentFeeds]
  ELSE [new |-> FALSE, last |-> lastProcessed]

\* The urls feeds.json lists
FileUrls(f) == {getCurrentFeeds(f)[i] : i \in 1..Len(getCurrentFeeds(f))} \ {OBJ}

\* The options processFeeds passes to fetchAlbums
AutoOptions == Opts("dynamic", TRUE, FALSE, UNDEF, TRUE)

\* fetchAlbums has settled and the rest of processFeeds runs next, before any
\* timer or request
Returning == isProcessing /\ call.pc = "idle"

\* processFeeds up to its await, without the test of isProcessing: a pass
\* starts beside the one that is running
ProcessFeeds_noGuard ==
  /\ isProcessing' = TRUE
  /\ passes' = [passes EXCEPT !.running = @ + 1, !.sees = FileUrls(file)]
  /\ IF call.pc = "idle" THEN FetchAlbumsCall(AutoOptions)
     ELSE UNCHANGED <<albumVars, resolveVars, file, feedsData, now, ticks, ops, last, build,
                      runs, hist>>

\* processFeeds up to its await: nothing when a pass is running
ProcessFeeds ==
  IF isProcessing
  THEN /\ passes' = [passes EXCEPT !.skipped = @ + 1]
       /\ UNCHANGED <<isProcessing, albumVars, resolveVars, file, feedsData, now, ticks,
                      ops, last, build, runs, hist>>
  ELSE /\ isProcessing' = TRUE
       /\ passes' = [passes EXCEPT !.running = @ + 1, !.sees = FileUrls(file)]
       /\ FetchAlbumsCall(AutoOptions)

\* startAutoFeedProcessor outside a serverless environment: the initial
\* check, and the watcher on feeds.json
StartAutoFeedProcessor ==
  /\ watcher = NULL /\ ~Returning
  /\ LET r == hasNewFeeds(lastProcessedFeeds, getCurrentFeeds(file))
     IN  /\ initialTimeout' = r.new
         /\ lastProcessedFeeds' = IF r.new THEN r.last ELSE getCurrentFeeds(file)
  /\ watcher' = [prev |-> file]
  /\ passes' = [passes EXCEPT !.atStart = FileUrls(file)]
  /\ UNCHANGED <<isProcessing, processingTimeout, triggers, albumVars, resolveVars, file,
                 feedsData, now, ticks, ops, last, build, runs, hist>>

\* The timer of the initial check fires: processFeeds()
InitialTimeoutFires ==
  /\ initialTimeout /\ ~Returning
  /\ initialTimeout' = FALSE
  /\ ProcessFeeds
  /\ UNCHANGED <<lastProcessedFeeds, processingTimeout, watcher, triggers>>

\* The listener of fs.watchFile sees a new mtime: the debounce timer is set
WatcherPolls ==
  /\ watcher # NULL /\ watcher.prev # file /\ ~Returning
  /\ watcher' = [prev |-> file]
  /\ processingTimeout' = TRUE
  /\ UNCHANGED <<lastProcessedFeeds, isProcessing, initialTimeout, triggers, passes, albumVars,
                 resolveVars, file, feedsData, now, ticks, ops, last, build, runs, hist>>

\* The debounce timer fires: if (hasNewFeeds()) processFeeds()
ProcessingTimeoutFires ==
  /\ processingTimeout /\ ~Returning
  /\ processingTimeout' = FALSE
  /\ LET r == hasNewFeeds(lastProcessedFeeds, getCurrentFeeds(file))
     IN  /\ lastProcessedFeeds' = r.last
         /\ IF r.new THEN ProcessFeeds
            ELSE UNCHANGED <<isProcessing, passes, albumVars, resolveVars, file, feedsData, now,
                             ticks, ops, last, build, runs, hist>>
  /\ UNCHANGED <<initialTimeout, watcher, triggers>>

\* triggerFeedProcessing up to the await of processFeeds
TriggerFeedProcessing ==
  /\ triggers < MaxTriggers /\ ~Returning
  /\ triggers' = triggers + 1
  /\ lastProcessedFeeds' = getCurrentFeeds(file)
  /\ ProcessFeeds
  /\ UNCHANGED <<processingTimeout, initialTimeout, watcher>>

\* The rest of processFeeds once fetchAlbums has settled: static-albums.json
\* is written when the result has albums, the write succeeds or throws into
\* its catch, and the finally resets isProcessing
ProcessFeedsReturns(saved) ==
  /\ Returning
  /\ staticFile' = IF saved /\ Len(ret.result.albums) > 0
                   THEN Snapshot(ret.result.albums, ret.result.count)
                   ELSE staticFile
  /\ isProcessing' = FALSE
  /\ passes' = [passes EXCEPT
                  !.running = @ - 1,
                  !.parsed = @ \cup {u \in passes.sees :
                                       \E k \in 1..Len(ret.got) : ret.got[k].url = u}]
  /\ UNCHANGED <<lastProcessedFeeds, processingTimeout, initialTimeout, watcher, triggers,
                 resolveVars, file, feedsData, now, ticks, ops, last, build, runs, hist,
                 cachedFile, memoryCache, cacheTimestamp, call, calls, ret, stored, abandoned>>

\* Feeds the build script discovers
AutoNewFeeds ==
  { Feed(discoveredFeedId(UrlText(u)), u, "album", FeedFromTitle(UrlText(u)),
         "extended", "active", "recursive", "uP", 0) : u \in {"uB"} }

\* FeedManager.addFeed in the process of the build script, which has its own
\* FeedManager: feeds.json is rewritten and the cache of this process is not
BuildAddsFeed(feed) ==
  /\ ops < MaxOps
  /\ feed.originalUrl \notin FileUrls(file)
  /\ file' = WriteFeedsData(AddFeedData(ReadFeedsJson(file, now), feed, now))
  /\ ops' = ops + 1
  /\ last' = [op |-> "build.addFeed", url |-> feed.originalUrl]
  /\ UNCHANGED <<autoVars, resolveVars, albumVars, feedsData, now, ticks, build, runs, hist>>

\* feeds.json when the server starts
AutoFiles ==
  { MissingFile,
    ObjectFile(<<RecA>>, 0, 1),
    ObjectFile(<<RecP("album"), RecA, RecC>>, 0, 1),
    ArrayFile(<<Str("uP"), Str("uA")>>) }

InitAuto ==
  /\ file \in AutoFiles
  /\ staticFile = MissingSnapshot
  /\ feedsData = NULL
  /\ now = StartTime
  /\ ticks = 0
  /\ ops = 0
  /\ last = NoOp
  /\ build = IdleBuild
  /\ runs = 0
  /\ hist = <<>>
  /\ cachedFile = MissingSnapshot
  /\ memoryCache = NULL
  /\ cacheTimestamp = 0
  /\ call = NoCall
  /\ calls = 0
  /\ ret = NoRet
  /\ stored = NothingStored
  /\ abandoned = {}
  /\ albumCache = NoAlbumCache
  /\ resolves = 0
  /\ resp = NoResp
  /\ AutoIdle

NextAuto ==
  \/ StartAutoFeedProcessor
  \/ InitialTimeoutFires
  \/ WatcherPolls
  \/ ProcessingTimeoutFires
  \/ TriggerFeedProcessing
  \/ \E outcome \in Outcomes : ParseStep(outcome)
  \/ \E saved \in BOOLEAN : ProcessFeedsReturns(saved)
  \/ \E feed \in AutoNewFeeds : BuildAddsFeed(feed)

SpecAuto == InitAuto /\ [][NextAuto]_vars

\* The timers fire, the watcher polls, and every awaited call settles
AutoFairness ==
  /\ WF_vars(InitialTimeoutFires)
  /\ WF_vars(WatcherPolls)
  /\ WF_vars(ProcessingTimeoutFires)
  /\ WF_vars(\E outcome \in Outcomes : ParseStep(outcome))
  /\ WF_vars(\E saved \in BOOLEAN : ProcessFeedsReturns(saved))

SpecAutoLive == SpecAuto /\ AutoFairness

----------------------------------------------------------------------------
(* The registry and the build: specification Spec *)

Init ==
  /\ file \in InitialFiles
  /\ feedsData = NULL
  /\ now = StartTime
  /\ ticks = 0
  /\ ops = 0
  /\ last = NoOp
  /\ build = IdleBuild
  /\ runs = 0
  /\ hist = <<>>
  /\ staticFile = MissingSnapshot
  /\ cachedFile = MissingSnapshot
  /\ memoryCache = NULL
  /\ cacheTimestamp = 0
  /\ call = NoCall
  /\ calls = 0
  /\ ret = NoRet
  /\ stored = NothingStored
  /\ abandoned = {}
  /\ albumCache = NoAlbumCache
  /\ resolves = 0
  /\ resp = NoResp
  /\ AutoIdle

Next ==
  \/ ClearCache
  \/ LoadFeeds
  \/ \E feed \in NewFeeds : FMAddFeed(feed)
  \/ \E id \in SomeIds(Registry.feeds), updates \in Patches : FMUpdateFeed(id, updates)
  \/ \E id \in SomeIds(Registry.feeds) : FMRemoveFeed(id)
  \/ \E url \in Urls : FsAddFeed(url)
  \/ \E url \in Urls : FsRemoveFeed(urlToFeedId(UrlText(url)))
  \/ BuildStart
  \/ \E answers \in BOOLEAN : DetectStep(answers)
  \/ \E answers \in BOOLEAN : DiscoverStep(answers)

Spec == Init /\ [][Next]_vars

----------------------------------------------------------------------------
(* The registry document and the id derivations on their own: SpecStore *)

SeqsUpTo(S, n) == UNION {[1..k -> S] : k \in 0..n}

\* Records and url strings the document may hold
StoreRecords == {RecP("album"), RecP("publisher"), RecA, RecC}
LegacyUrls == {"uP", "uA", "uE"}

\* data/feeds.json in each accepted shape, and absent
StoreFiles ==
  {MissingFile}
  \cup {ObjectFile(fs, 0, 1) : fs \in SeqsUpTo(StoreRecords, MaxFeeds)}
  \cup {ArrayFile(fs) : fs \in SeqsUpTo(StoreRecords, MaxFeeds)}
  \cup {ArrayFile([i \in DOMAIN us |-> Str(us[i])]) :
          us \in SeqsUpTo(LegacyUrls, MaxFeeds) \ {<< >>}}

\* Url texts an id is derived from
UrlAlphabet == {"h", "A", "/", "-"}
IdInputs ==
  {UrlText(u) : u \in Urls \cup LegacyUrls}
  \cup SeqsUpTo(UrlAlphabet, MaxUrlLen)

\* The id each of the three places derives for one url text
DeriveId(url) ==
  /\ last = NoOp /\ file = MissingFile
  /\ last' = [op |-> "deriveId", url |-> url,
              loadFeeds |-> loadFeedsFeedId(url),
              urlToFeed |-> urlToFeedId(url),
              discovered |-> discoveredFeedId(url)]
  /\ UNCHANGED <<autoVars, resolveVars, albumVars, file, feedsData, now, ticks, ops, build, runs, hist>>

\* A FeedManager mutator that changes no record: loadFeeds, then
\* fs.writeFileSync(feedsPath, JSON.stringify(feedsData)), then the cache
FMWriteBack ==
  /\ LET data == loadFeeds(feedsData, file, now)
     IN  /\ file' = WriteFeedsData(data)
         /\ feedsData' = data
         /\ last' = [op |-> "writeBack", by |-> "FeedManager", preFile |-> file,
                     loaded |-> data.feeds]
  /\ UNCHANGED <<autoVars, resolveVars, albumVars, now, ticks, ops, build, runs, hist>>

\* feeds-manager.ts: writeFeedsFile(await readFeedsFile())
FsWriteBack ==
  /\ file' = writeFeedsFile(readFeedsFile(file))
  /\ last' = [op |-> "writeBack", by |-> "feeds-manager", preFile |-> file,
              loaded |-> loadFeeds(feedsData, file, now).feeds]
  /\ UNCHANGED <<autoVars, resolveVars, albumVars, feedsData, now, ticks, ops, build, runs, hist>>

InitStore ==
  /\ file \in StoreFiles
  /\ feedsData = NULL
  /\ now = StartTime
  /\ ticks = 0
  /\ ops = 0
  /\ last = NoOp
  /\ build = IdleBuild
  /\ runs = 0
  /\ hist = <<>>
  /\ staticFile = MissingSnapshot
  /\ cachedFile = MissingSnapshot
  /\ memoryCache = NULL
  /\ cacheTimestamp = 0
  /\ call = NoCall
  /\ calls = 0
  /\ ret = NoRet
  /\ stored = NothingStored
  /\ abandoned = {}
  /\ albumCache = NoAlbumCache
  /\ resolves = 0
  /\ resp = NoResp
  /\ AutoIdle

NextStore ==
  \/ LoadFeeds
  \/ ClearCache
  \/ FMWriteBack
  \/ FsWriteBack
  \/ \E url \in IdInputs : DeriveId(url)

SpecStore == InitStore /\ [][NextStore]_vars

----------------------------------------------------------------------------
(* Claims about the registry and discovery *)

IsAdd == last.op \in {"FeedManager.addFeed", "feeds-manager.addFeed"}

\* C1: an add of a record whose originalUrl is already the originalUrl of a
\* record of the registry is rejected and leaves the registry and the file
\* unchanged; after a successful add, load() holds exactly one record with
\* that url.
C1_AddRejectsDuplicateUrl ==
  IsAdd =>
    /\ last.url \in Range(last.pre) =>
         /\ ~last.ok
         /\ file = last.preFile
         /\ UrlsIn(Registry.feeds) = last.pre
    /\ last.ok => Count(last.url, UrlsIn(Registry.feeds)) = 1

\* No two records of a registry share an originalUrl
UniqueUrls(feeds) ==
  \A i, j \in 1..Len(feeds) :
    (i # j /\ UrlOf(feeds[i]) # UNDEF) => UrlOf(feeds[i]) # UrlOf(feeds[j])

\* C2: in every reachable state no two records of the registry, in memory
\* and as persisted, have the same originalUrl.
C2_UniqueOriginalUrl ==
  /\ UniqueUrls(Registry.feeds)
  /\ UniqueUrls(Persisted.feeds)

\* The manifest items discovery may register: music items with a feedUrl
ChildUrls(pub) ==
  {Manifest(pub)[i].feedUrl : i \in {k \in 1..Len(Manifest(pub)) :
      Manifest(pub)[k].medium = "music" /\ Manifest(pub)[k].feedUrl # UNDEF}}

\* Two passes over the same publisher feed, in consecutive runs, both with
\* an answer from parsePublisherFeed and no registry mutation in between
TwoPasses(i, j) ==
  /\ i < j
  /\ hist[i].pub = hist[j].pub
  /\ hist[i].ok /\ hist[j].ok
  /\ hist[j].run = hist[i].run + 1
  /\ hist[j].ops = hist[i].ops

\* C4: discovery run twice on the same publisher feed, with no other
\* registry change in between, registers each child feed that was unknown
\* before the first run exactly once; the second run adds no record.
C4_DiscoveryIdempotent ==
  \A i, j \in 1..Len(hist) :
    TwoPasses(i, j) =>
      /\ hist[j].added = <<>>
      /\ \A u \in ChildUrls(hist[i].pub) :
           u \notin Range(hist[i].pre) =>
             /\ Count(u, hist[i].added) = 1
             /\ Count(u, hist[j].post) = 1

\* Two such passes happened and the first one registered a child feed
C4_Witness ==
  \E i, j \in 1..Len(hist) :
    /\ TwoPasses(i, j)
    /\ \E u \in ChildUrls(hist[i].pub) :
         u \notin Range(hist[i].pre) /\ Count(u, hist[i].added) = 1

\* C5: discovery never registers an item whose feedUrl is already the
\* originalUrl of a record of the registry, and a feedUrl occurring twice in
\* the manifests of a pass yields exactly one new record.
C5_DiscoverySkipsKnownUrls ==
  /\ \A i \in 1..Len(hist) :
       \A u \in Range(hist[i].added) :
         /\ u \notin Range(hist[i].pre)
         /\ Count(u, hist[i].added) = 1
  /\ \A i, j \in 1..Len(hist) :
       (i # j /\ hist[i].run = hist[j].run) =>
         Range(hist[i].added) \cap Range(hist[j].added) = {}

\* What the claims compare of a registry: id, url, type and status per record
RegistryContent(feeds) ==
  [i \in 1..Len(feeds) |->
     [id |-> IdOf(feeds[i]), originalUrl |-> UrlOf(feeds[i]),
      type |-> TypeOf(feeds[i]), status |-> StatusOf(feeds[i])]]

IsMutator ==
  last.op \in {"FeedManager.addFeed", "FeedManager.updateFeed", "FeedManager.removeFeed",
               "feeds-manager.addFeed", "feeds-manager.removeFeed"}

\* A mutation of the registry has completed: a mutator returned success, or
\* a build run finished its reclassification and discovery
MutationCompleted ==
  /\ Idle
  /\ \/ IsMutator /\ last.ok
     \/ last.op \in {"discover", "detectFeedType"}

\* C11: after a completed registry mutation (add, update, remove, discovery,
\* reclassification) and after clearCache, the next load() returns the
\* registry as the file holds it; the cache never serves older data.
C11_CacheNeverStale ==
  (MutationCompleted \/ last.op = "clearCache") =>
    RegistryContent(Registry.feeds) = RegistryContent(Persisted.feeds)

\* The (originalUrl, type, status) triples of a registry
UrlTypeStatus(feeds) ==
  {[originalUrl |-> UrlOf(feeds[i]), type |-> TypeOf(feeds[i]), status |-> StatusOf(feeds[i])] :
     i \in 1..Len(feeds)}

C13_WritesCanonicalShape == [][file' # file => file'.shape = "object"]_vars

\* Only [a-z0-9-], no hyphen at either end, at most IdCap characters
WellFormedId(id) ==
  /\ \A i \in 1..Len(id) : id[i] \in LowerSet \cup DigitSet \cup {"-"}
  /\ Len(id) > 0 => (id[1] # "-" /\ id[Len(id)] # "-")
  /\ Len(id) <= IdCap

\* C14: for every url the derived id is the same at every place an id is
\* derived, has only characters of [a-z0-9-], has no leading or trailing
\* hyphen and is at most 200 characters long.
C14_DerivedIdWellFormed ==
  last.op = "deriveId" =>
    /\ last.loadFeeds = last.urlToFeed
    /\ last.urlToFeed = last.discovered
    /\ WellFormedId(last.loadFeeds)
    /\ WellFormedId(last.urlToFeed)
    /\ WellFormedId(last.discovered)

\* The document is a non-empty array of url strings
IsLegacyFile(f) ==
  /\ f.shape = "array" /\ Len(f.feeds) > 0
  /\ \A i \in 1..Len(f.feeds) : f.feeds[i].k = "str"

\* C15: loading a document in the legacy url-string-array shape yields one
\* record per url, in order, each with type album, priority core, status
\* active, source manual and an id derived from its url;
\* https://a.example/feed.xml gets the id https-a-example-feed-xml.
C15_LegacyArrayLoads ==
  (last.op = "loadFeeds" /\ IsLegacyFile(file)) =>
    /\ Len(feedsData.feeds) = Len(file.feeds)
    /\ \A i \in 1..Len(file.feeds) :
         LET rec == feedsData.feeds[i]
         IN  /\ rec.originalUrl = file.feeds[i].url
             /\ rec.type = "album" /\ rec.priority = "core"
             /\ rec.status = "active" /\ rec.source = "manual"
             /\ WellFormedId(rec.id)
             /\ rec.id = urlToFeedId(UrlText(rec.originalUrl))
             /\ rec.originalUrl = "uE" =>
                  rec.id = <<"h","t","t","p","s","-","a","-","e","x","a","m","p","l","e",
                             "-","f","e","e","d","-","x","m","l">>

\* The example document ["https://a.example/feed.xml", ...] was loaded
C15_Witness ==
  /\ last.op = "loadFeeds" /\ IsLegacyFile(file)
  /\ file.feeds[1].url = "uE"
  /\ Len(feedsData.feeds) = MaxFeeds

IsRemove == last.op \in {"FeedManager.removeFeed", "feeds-manager.removeFeed"}

\* C17: remove(id) with no matching record signals a not-found failure to
\* the caller and leaves the registry file as it was.
C17_RemoveNotFound ==
  ( /\ IsRemove
    /\ \A i \in 1..Len(last.preFeeds) : EntryId(last.preFeeds[i]) # last.id )
  => /\ last.signal = "Feed not found"
     /\ file = last.preFile

\* The record being registered has the id of an existing record that has a
\* different originalUrl
IdCollision ==
  \E i \in 1..Len(last.preIds) : last.preIds[i] = last.id /\ last.pre[i] # last.url

\* C18: registering a record whose id is that of an existing record with a
\* different originalUrl fails: the file is left as it was, and no two
\* records of the registry share that id.
C18_IdCollisionFails ==
  (IsAdd /\ IdCollision)
  => /\ ~last.ok
     /\ file = last.preFile
     /\ Cardinality({i \in 1..Len(Registry.feeds) : EntryId(Registry.feeds[i]) = last.id}) <= 1

\* C22: a reader that runs while detectAndUpdateFeedTypes is awaiting a
\* detection sees the registry as it is persisted: no feed shows a type
\* that the batched write has not yet written.
C22_NoHalfUpdatedRegistry ==
  (build.pc = "detect" /\ feedsData # NULL)
  => RegistryContent(Registry.feeds) = RegistryContent(Persisted.feeds)

\* The entries of hist that run r of buildRSSData left, in order
RunEntries(h, r) == SelectSeq(h, LAMBDA e : e.run = r)

\* One step of a batch in which the parser threw.  The build script reloads
\* the registry from the file after each loop, so the records are compared
\* in the cache while the loop runs and in the file when it ends.
C25_FailedStep ==
  /\ (build.pc = "detect" /\ build' # build /\ ~last'.ok) =>
       IF build.i < Len(build.check)
       THEN /\ feedsData' = feedsData /\ file' = file
            /\ build'.pc = "detect" /\ build'.i = build.i + 1 /\ build'.check = build.check
            /\ build'.hasUpdates = build.hasUpdates
       ELSE /\ build'.pc \in {"discover", "idle"}
            /\ IF build.hasUpdates
               THEN RegistryContent(ReadFeedsJson(file', now).feeds)
                      = RegistryContent(feedsData.feeds)
               ELSE file' = file
  /\ (build.pc = "discover" /\ build' # build /\ ~hist'[Len(hist')].ok) =>
       /\ file' = file
       /\ IF build.i < Len(build.pubs)
          THEN /\ RegistryContent(Registry'.feeds) = RegistryContent(Registry.feeds)
               /\ build'.pc = "discover" /\ build'.i = build.i + 1
               /\ build'.pubs = build.pubs
          ELSE build'.pc = "idle"
  /\ (build.pc = "discover" /\ build'.pc = "idle") =>
       [k \in 1..Len(RunEntries(hist', runs)) |-> RunEntries(hist', runs)[k].pub]
         = [k \in 1..Len(build.pubs) |-> build.pubs[k].originalUrl]

\* C25: when detectFeedType throws for a feed of a reclassification batch,
\* or parsePublisherFeed throws for a publisher feed of a discovery batch,
\* the records of the registry stay as they were, the type of that feed
\* included, nothing but the changes of the earlier feeds of the batch is
\* written, and the loop goes on to the next feed; a discovery batch ends
\* with one entry per publisher feed, in order.
C25_FailureIsolated == [][C25_FailedStep]_vars

\* A discovery batch went on after its first publisher feed failed, and in
\* the next run a failed detection was followed by discovery
C25_Witness ==
  /\ \E k \in 1..(Len(hist) - 1) :
       hist[k].run = hist[k + 1].run /\ ~hist[k].ok /\ hist[k + 1].ok
  /\ last.op = "detectFeedType" /\ ~last.ok
  /\ build.pc = "discover"

\* One step of detectAndUpdateFeedTypes: the start of a batch, or one feed
C26_BatchStep ==
  /\ (build.pc # "detect" /\ build'.pc = "detect") =>
       /\ \A i \in 1..Len(feedsData'.feeds) :
            (\E k \in 1..Len(build'.check) : build'.check[k] = i)
              <=> ( TypeOf(feedsData'.feeds[i]) = "album"
                    /\ StatusOf(feedsData'.feeds[i]) = "active" )
       /\ \A j, k \in 1..Len(build'.check) : j < k => build'.check[j] < build'.check[k]
       /\ ~build'.hasUpdates
       /\ file' = file
  /\ (build.pc = "detect" /\ build' # build) =>
       LET idx == build.check[build.i]
           feeds == feedsData.feeds
           others == (1..Len(feeds)) \ {idx}
           differs == last'.ok /\ RemoteType(last'.url) # last'.type
           written == ReadFeedsJson(file', now).feeds
       IN  /\ TypeOf(feeds[idx]) = "album" /\ StatusOf(feeds[idx]) = "active"
           /\ build.hasUpdates
                <=> \E k \in 1..(build.i - 1) : TypeOf(feeds[build.check[k]]) # "album"
           /\ IF build.i < Len(build.check)
              THEN /\ file' = file
                   /\ Len(feedsData'.feeds) = Len(feeds)
                   /\ \A j \in others : feedsData'.feeds[j] = feeds[j]
              ELSE IF build.hasUpdates \/ differs
              THEN /\ Len(written) = Len(feeds)
                   /\ \A j \in others :
                        RegistryContent(written)[j] = RegistryContent(feeds)[j]
                   /\ TypeOf(written[idx]) = IF differs THEN RemoteType(last'.url)
                                             ELSE TypeOf(feeds[idx])
              ELSE file' = file

\* C26: detectAndUpdateFeedTypes examines exactly the records that are active
\* and of type album, writes the registry only in the step of the last feed
\* of the batch and only if the detected type of some feed of the batch
\* differed from its type, and leaves every other record as it was.
C26_OneBatchedWrite == [][C26_BatchStep]_vars

\* A batch of two feeds ended: the first was reclassified, the file holds the
\* new type, and the inactive record is as it was
C26_Witness ==
  /\ last.op = "detectFeedType" /\ last.i = 2 /\ last.url = "uA"
  /\ build.pc = "discover"
  /\ KnownAs(Persisted, "uP").type = "publisher"
  /\ KnownAs(Persisted, "uC") = [type |-> "album", status |-> "inactive"]

----------------------------------------------------------------------------
(* Claims about AlbumsService *)

Done == ret.op = "fetchAlbums"

\* The feeds of the call's pass that gave no album, and those whose parse threw
FailedIn(got) == SelectSeq(got, LAMBDA g : g.outcome # "album")
ThrownIn(got) == SelectSeq(got, LAMBDA g : g.outcome = "throw")
AlbumIdsIn(got) ==
  LET ok == SelectSeq(got, LAMBDA g : g.outcome = "album")
  IN  [i \in 1..Len(ok) |-> ok[i].id]

FeedIdsOf(albums) == [i \in 1..Len(albums) |-> albums[i].feedId]
ErrorIdsOf(errors) == [i \in 1..Len(errors) |-> errors[i].feedId]
FailedIdsOf(got) == [i \in 1..Len(got) |-> got[i].id]

\* albums is a list, count and timestamp are there; count is the length of
\* the list unless it was read from albums-static-cached.json
WellFormed(r) ==
  /\ {"albums", "count", "timestamp"} \subseteq DOMAIN r
  /\ DOMAIN r.albums = 1..Len(r.albums)
  /\ r.count \in Nat
  /\ (r.source # "static-cached-file" => r.count = Len(r.albums))
  /\ r.timestamp \in Nat /\ r.timestamp <= now
  /\ (r.hasErrors => Len(r.errors) > 0)

SomethingFailed ==
  Len(FailedIn(ret.got)) > 0 \/ ret.snapFailed \/ ret.regFailed

StaticYieldsNothing == Len(fetchFromStaticFile(staticFile, now).albums) = 0

\* C7: a completed fetchAlbums({source:'auto'}) call that found 0 albums in
\* the static snapshot and whose dynamic pass gave n > 0 albums and k failed
\* feeds returned exactly those n albums, in feed order, and k errors.
C7_AutoFallsBackToDynamic ==
  (/\ Done /\ ret.opts.source = "auto" /\ ret.opts.includeErrors /\ ret.ran
   /\ StaticYieldsNothing /\ Len(AlbumIdsIn(ret.got)) > 0)
  => /\ FeedIdsOf(ret.result.albums) = AlbumIdsIn(ret.got)
     /\ Len(ret.result.errors) = Len(FailedIn(ret.got))
     /\ ret.result.hasErrors = (Len(FailedIn(ret.got)) > 0)
     /\ ret.result.source = "direct-rss-parsing"

C7_Witness ==
  /\ Done /\ ret.opts = Opts("auto", FALSE, FALSE, UNDEF, TRUE) /\ ret.ran
  /\ StaticYieldsNothing
  /\ Len(ret.result.albums) = 1 /\ Len(ret.result.errors) = 1

\* C8: a completed fetchAlbums call with source 'auto' returned zero albums
\* only if the static snapshot yields zero albums too.
C8_AutoEmptyOnlyIfAllFailed ==
  (Done /\ ret.opts.source = "auto" /\ Len(ret.result.albums) = 0)
  => StaticYieldsNothing

\* C9 as stated: of two consecutive fetchAlbums calls made within one TTL
\* window, neither with forceRegenerate, the second returned the album list
\* of the first and reported cached: true with a nonzero cacheAge.
C9_SecondCallAlwaysCached ==
  (/\ Done /\ ret.prev.op = "fetchAlbums"
   /\ ~ret.opts.forceRegenerate /\ ~ret.prev.forceRegenerate
   /\ ret.at - StartTime < CACHE_TTL)
  => /\ ret.result.albums = ret.prev.albums
     /\ ret.result.cached /\ ret.result.cacheAge > 0

\* C9, amended: when a fetchAlbums call returned a result that it stored in,
\* or served from, the memory cache, the next call, made less than the TTL
\* after the result was stored, without forceRegenerate or clearCache and
\* with no clearCache() in between, returned the same album list and
\* reported cached: true with cacheAge the elapsed time rounded to seconds.
C9_CachedResultRepeated ==
  (/\ Done /\ ret.prev.op = "fetchAlbums" /\ ret.prev.kept
   /\ ~ret.opts.forceRegenerate /\ ~ret.opts.clearCache
   /\ ~ret.ghost.cleared /\ ret.at - ret.ghost.at < CACHE_TTL)
  => /\ ret.result.albums = ret.prev.albums
     /\ ret.result.cached
     /\ 2 * ret.result.cacheAge * 1000 - 2 * (ret.at - ret.ghost.at) \in -1000..1000

C9_Witness ==
  /\ Done /\ ret.prev.op = "fetchAlbums" /\ ret.prev.kept
  /\ ret.hit /\ ret.result.cacheAge > 0 /\ Len(ret.result.albums) > 0

\* C10: a completed fetchAlbums call was answered from the memory cache only
\* if it was made without forceRegenerate and without clearCache, a result
\* had been stored less than CACHE_TTL before and the cache was not cleared
\* since.
C10_CacheServedOnlyWhileValid ==
  (Done /\ ret.hit)
  => /\ ~ret.opts.forceRegenerate /\ ~ret.opts.clearCache
     /\ ret.ghost.at > 0 /\ ~ret.ghost.cleared
     /\ ret.at - ret.ghost.at < CACHE_TTL
     /\ ret.result.cached

C10_Witness ==
  /\ Done /\ ret.hit /\ ret.at - ret.ghost.at = TickMs

\* A pass over the feeds ran to its end for a caller who asked for the
\* dynamic or the database source
PassReturned ==
  ret.op = "fetchAlbums" /\ ret.ran /\ ret.opts.source \in {"dynamic", "database"}

\* The feed ids of the albums, and of the errors entries, of a result
AlbumIds(result) == [i \in 1..Len(result.albums) |-> result.albums[i].feedId]
ErrorIds(result) == [i \in 1..Len(result.errors) |-> result.errors[i].feedId]

\* The ids of the feeds of a pass whose parse gave an album, and of the rest
GotAlbum(got) == SelectSeq(got, LAMBDA g : g.outcome = "album")
GotNoAlbum(got) == SelectSeq(got, LAMBDA g : g.outcome # "album")

\* C19: in one pass with includeErrors on, every feed processed contributes
\* exactly one entry: an album when its parse returned data, otherwise an
\* errors entry keyed by its feed id (thrown error, timeout or no data), so
\* albums + errors = feeds processed.
C19_EveryFeedAccounted ==
  (PassReturned /\ ret.opts.includeErrors)
  => /\ Len(ret.result.albums) + Len(ret.result.errors) = Len(ret.got)
     /\ AlbumIds(ret.result) = [i \in 1..Len(GotAlbum(ret.got)) |-> GotAlbum(ret.got)[i].id]
     /\ ErrorIds(ret.result) = [i \in 1..Len(GotNoAlbum(ret.got)) |-> GotNoAlbum(ret.got)[i].id]

\* The step in which a timer won the race, and the step in which an
\* abandoned parse settled
TimerFired == \E a \in abandoned' \ abandoned : a.settled = "pending"
ParseSettledLate == \E a \in abandoned \ abandoned' : a.settled = "pending"

\* The timeout of the feed in flight was recorded as an errors entry
TimeoutRecorded ==
  LET entry == ErrorEntry(call.feeds[call.i].id, "timeout")
  IN  IF call.i < Len(call.feeds)
      THEN call'.pass.errors = Append(call.pass.errors, entry)
      ELSE ret'.result.errors = Append(call.pass.errors, entry)

\* After the timeout the loop is at the next feed, or the pass has ended
\* after the last one, with no album added for the feed
LoopProceeds ==
  IF call.i < Len(call.feeds)
  THEN /\ call'.pc = "parse" /\ call'.i = call.i + 1
       /\ call'.pass.albums = call.pass.albums
  ELSE /\ call'.pc = "idle" /\ ret'.ran
       /\ memoryCache'.albums = call.pass.albums

\* The statement without the includeErrors condition: every timeout
\* commits an errors entry
C20_TimeoutAlwaysRecorded ==
  [][ /\ TimerFired => (TimeoutRecorded /\ LoopProceeds)
      /\ ParseSettledLate => UNCHANGED <<call, ret, memoryCache>> ]_vars

\* C20: when a feed's parse loses the race against its timer in the dynamic
\* path, the loop proceeds to the next feed and, with includeErrors on, an
\* errors entry is committed for the feed; when the abandoned parse settles
\* later, the pass's album list, the returned result and the memory cache
\* stay as they are.
C20_TimeoutRecordedLateIgnored ==
  [][ /\ TimerFired => /\ call.opts.includeErrors => TimeoutRecorded
                       /\ LoopProceeds
      /\ ParseSettledLate => UNCHANGED <<call, ret, memoryCache>> ]_vars

\* A pass went on after a timeout and returned with the errors entry, and
\* the abandoned parse settled with album data afterwards
C20_Witness ==
  \E a \in abandoned :
    /\ a.settled = "album" /\ a.call = calls
    /\ call.pc = "idle" /\ ret.op = "fetchAlbums" /\ ret.ran /\ ret.opts.includeErrors
    /\ \E i \in 1..(Len(ret.got) - 1) : ret.got[i].id = a.id /\ ret.got[i].outcome = "timeout"
    /\ \E j \in 1..Len(ret.result.errors) : ret.result.errors[j] = ErrorEntry(a.id, "timeout")
    /\ memoryCache # NULL
    /\ Len(memoryCache.albums) > 0
    /\ \A k \in 1..Len(memoryCache.albums) : memoryCache.albums[k].feedId # a.id

\* a is b with some elements left out, the others in b's order
IsSubSeq(a, b) ==
  \E f \in [1..Len(a) -> 1..Len(b)] :
    /\ \A i \in 1..Len(a) : a[i] = b[f[i]]
    /\ \A i, j \in 1..Len(a) : i < j => f[i] < f[j]

\* The feed ids of the outcomes recorded so far
GotIds(got) == [k \in 1..Len(got) |-> got[k].id]

\* C21: within one pass the feeds are parsed one after the other: when the
\* loop is at feed i, exactly the feeds before i have produced their album
\* or their failure (completed, failed or timed out), in the order of the
\* feeds, which is the order of the registry; the albums of the pass and of
\* the result keep that order.
C21_SequentialInOrder ==
  /\ call.pc = "parse" =>
       /\ Len(call.pass.got) = call.i - 1
       /\ GotIds(call.pass.got) = [k \in 1..(call.i - 1) |-> call.feeds[k].id]
       /\ IsSubSeq(IdsIn(call.feeds), IdsIn(Registry.feeds))
       /\ [k \in 1..Len(call.pass.albums) |-> call.pass.albums[k].feedId]
            = GotIds(GotAlbum(call.pass.got))
  /\ (ret.op = "fetchAlbums" /\ ret.ran) =>
       /\ IsSubSeq(GotIds(ret.got), IdsIn(Registry.feeds))
       /\ ret.kept => AlbumIds(ret.result) = GotIds(GotAlbum(ret.got))

\* A pass over two feeds went on to the second feed after the first timed
\* out, and returned the album of the second
C21_Witness ==
  /\ ret.op = "fetchAlbums" /\ ret.ran /\ ret.kept
  /\ Len(ret.got) = 2 /\ ret.got[1].outcome = "timeout" /\ ret.got[2].outcome = "album"
  /\ GotIds(ret.got) = IdsIn(ActiveOf(Registry))
  /\ AlbumIds(ret.result) = <<ret.got[2].id>>

\* Every feed in a list of parsed feeds was an active album record of the
\* registry when it was parsed
ActiveAlbumsOnly(parsed) ==
  \A k \in 1..Len(parsed) : parsed[k].type = "album" /\ parsed[k].status = "active"

SourceLabels(source) ==
  CASE source = "static" -> {"static-file"}
    [] source = "static-cached" -> {"static-cached-file"}
    [] source = "database" -> {"database-feeds", "static-file"}
    [] source = "dynamic" -> {"direct-rss-parsing", "dynamic", "static-file"}
    [] source = "auto" -> {"direct-rss-parsing", "dynamic", "static-file"}

\* C29: a fetchAlbums call answered from the memory cache returns a result
\* computed for the source and the priority it requests: the result carries
\* a source label of the requested source, and when a priority is requested
\* every album of it comes from a feed of that priority.
C29_CacheHitSameSourceAndPriority ==
  (ret.op = "fetchAlbums" /\ ret.hit)
  => /\ ret.result.source \in SourceLabels(ret.opts.source)
     /\ ret.opts.priority # UNDEF =>
          \A k \in 1..Len(ret.result.albums) :
            \E i \in 1..Len(Registry.feeds) :
              /\ UrlOf(Registry.feeds[i]) = ret.result.albums[k].feedUrl
              /\ PriorityOf(Registry.feeds[i]) = ret.opts.priority

----------------------------------------------------------------------------
(* Claims about the album route *)

\* C3: a request whose identifier is the id of an active publisher feed of
\* the registry, or the slug of its title, is answered with the publisher
\* signal and never with album data.
C3_PublisherPrecedence ==
  (resp.op = "resolve" /\ Len(resp.seen.ids) > 0) => resp.kind = "publisher"

\* The title has a separator with a space on each side: 'Base - Subtitle'
SeparatorAt(title, i) ==
  /\ i > 1 /\ i + 2 <= Len(title)
  /\ title[i] = " " /\ IsDash(title[i + 1]) /\ title[i + 2] = " "

HasSeparator(title) == \E i \in 1..Len(title) : SeparatorAt(title, i)

\* Base: the portion of the title before the first such separator
BaseOf(title) ==
  SubSeq(title, 1, (CHOOSE i \in 1..Len(title) :
                      SeparatorAt(title, i) /\ \A j \in 1..(i - 1) : ~SeparatorAt(title, j)) - 1)

\* C16: when the title search is reached and an answering album feed has a
\* title 'Base - Subtitle' with the requested id equal to the slug of Base,
\* and no feed before it matches, the response is that album.
C16_FlexibleBaseMatch ==
  resp.op = "resolve" =>
    \A i \in 1..Len(resp.seen.titles) :
      ( /\ HasSeparator(resp.seen.titles[i])
        /\ generateAlbumSlug(BaseOf(resp.seen.titles[i]), resp.at) = resp.id
        /\ \A j \in 1..(i - 1) : ~TitleMatch(resp.seen.titles[j], resp.id, resp.at) )
      => /\ resp.status = 200 /\ resp.kind = "album"
         /\ resp.album.title = resp.seen.titles[i]

\* What one request of the album route did, against the registry it started from
C24_Request ==
  LET r == resp'
      parsed == r.seen.parsed
      direct == DirectMatches(Registry, r.id)
      reached == ~r.cached /\ Len(PublisherMatches(Registry, r.id)) = 0
  IN  /\ r.cached => parsed = <<>>
      /\ (reached /\ Len(direct) > 0) =>
           /\ r.seen.titles = <<>>
           /\ Len(parsed) <= 1
           /\ \A k \in 1..Len(parsed) : parsed[k].pos = direct[1]
           /\ r.status = 200 => r.album.feedId = r.id /\ r.album.feedUrl = UrlOf(Registry.feeds[direct[1]])
      /\ (reached /\ Len(direct) = 0) =>
           /\ \A j, k \in 1..Len(parsed) : parsed[j].pos = parsed[k].pos => j = k
           /\ (r.status = 200 /\ r.album.feedUrl # "static-data") =>
                /\ Len(parsed) > 0
                /\ r.album.feedUrl = UrlOf(Registry.feeds[parsed[Len(parsed)].pos])

\* C24: when the identifier is the id of an active album feed and matches no
\* publisher feed, the title search does not run, that feed is the one
\* returned, no other feed is parsed and it is parsed at most once; when a
\* feed is matched by title, it is the last feed parsed and no feed is parsed
\* twice in the request.
C24_DirectMatchFirst == [][resolves' # resolves => C24_Request]_vars

\* A direct match was answered and cached, and a later request was matched
\* by title on the second feed tried
C24_Witness ==
  /\ albumCache[IdP] # NULL /\ albumCache[IdP].data.feedId = IdP
  /\ resp.op = "resolve" /\ resp.id = <<"x">> /\ resp.status = 200 /\ ~resp.cached
  /\ Len(resp.seen.parsed) = 2
  /\ resp.album.feedId = IdA

\* C30: a request of the album route changes no record of the registry
\* FeedManager holds in memory and leaves feeds.json as it was.
C30_ResolveReadOnly ==
  [][resolves' # resolves
       => /\ file' = file
          /\ loadFeeds(feedsData', file', now').feeds = Registry.feeds]_vars


----------------------------------------------------------------------------
(* Claims about the auto feed processor *)

\* The url was added to feeds.json after the watcher was installed
AddedWhileWatching(u) ==
  watcher # NULL /\ u \in FileUrls(file) /\ u \notin passes.atStart

\* C27: while the processor is watching, every feed url added to feeds.json
\* is eventually parsed by a processFeeds pass that started after the
\* addition, ending as an album or an errors entry of that pass.
C27_AddedFeedEventuallyParsed ==
  \A u \in Urls : AddedWhileWatching(u) ~> (u \in passes.parsed)

\* A step in which a timer fired with feeds to process, or
\* triggerFeedProcessing was called: processFeeds is called
TriggerArrives ==
  \/ initialTimeout /\ ~initialTimeout'
  \/ /\ processingTimeout /\ ~processingTimeout'
     /\ hasNewFeeds(lastProcessedFeeds, getCurrentFeeds(file)).new
  \/ triggers' # triggers

\* C28: at most one processFeeds pass is in progress; isProcessing is true
\* exactly while one is, so it is false again after every pass, also after
\* one whose write failed; and a timer or a triggerFeedProcessing call that
\* arrives during a pass starts no pass and no fetchAlbums call.
C28_OnePassAtATime ==
  /\ [](passes.running <= 1 /\ (isProcessing <=> passes.running = 1))
  /\ [][(TriggerArrives /\ isProcessing)
          => /\ passes'.running = passes.running
             /\ passes'.skipped = passes.skipped + 1
             /\ UNCHANGED <<isProcessing, call, calls, ret, memoryCache, staticFile>>]_vars

\* A trigger arrived during a pass and returned, the pass parsed an album,
\* its write of static-albums.json failed, and isProcessing is false again
C28_Witness ==
  /\ passes.skipped > 0
  /\ ~isProcessing /\ passes.running = 0
  /\ ret.op = "fetchAlbums" /\ ret.ran /\ Len(ret.result.albums) > 0
  /\ staticFile = MissingSnapshot

====
